---- MODULE Spec2Model ----
(***************************************************************************)
(* State-machine model of custom_components/shuttercontrol/controller.py:  *)
(* the per-cover ShutterController (rule cascade, manual-override state    *)
(* machine, schedule arithmetic, recalibration) and the ControllerManager. *)
(*                                                                         *)
(* Time is an integer number of minutes (UTC).  A day has DayLen minutes   *)
(* (a scaled-down day); a time of day is a number in 0..DayLen-1.          *)
(* Python's None is the integer None for numbers/timestamps and the        *)
(* string "none" for the reason.                                           *)
(***************************************************************************)
EXTENDS Integers, Sequences, FiniteSets, TLC

VARIABLES
    now,          \* dt_util.utcnow(), in minutes
    hass,         \* the host's state machine: sensor states, cover positions, time zone
    controllers,  \* the ShutterController objects, by cover id: their fields
    manager,      \* ControllerManager: the cover ids its `controllers` mapping holds
    tasks,        \* per cover: coroutines created with hass.async_create_task, not yet run
    recal,        \* per cover: the position of a running recalibrate() coroutine
    sent,         \* cover.set_cover_position calls issued by the step just taken
    last          \* the handler run by the step just taken

vars == <<now, hass, controllers, manager, tasks, recal, sent, last>>

-----------------------------------------------------------------------------
(* Bounds of the model *)

DayLen == 4
MaxNow == 4
MaxPending == 1
\* DEFAULT_MANUAL_OVERRIDE_MINUTES (90 in const.py) on the scaled clock
DefaultOverrideMinutes == 2

(* Python None for optional numbers and timestamps *)
None == -99

NoReason == "none"
IDLE_REASON == "idle"

COVER_A == "cover.a"

(* const.py defaults *)
DEFAULT_OPEN_POSITION == 100
DEFAULT_CLOSE_POSITION == 0
DEFAULT_VENTILATE_POSITION == 50
DEFAULT_SHADING_POSITION == 30
DEFAULT_TOLERANCE == 3
\* "00:00:00", "06:00:00", "07:30:00", "18:00:00", "18:30:00" on the scaled day
DEFAULT_MANUAL_OVERRIDE_RESET_TIME == (0 * DayLen) \div 24
DEFAULT_TIME_UP_WORKDAY == (6 * DayLen) \div 24
DEFAULT_TIME_UP_NON_WORKDAY == (15 * DayLen) \div 48
DEFAULT_TIME_DOWN_WORKDAY == (18 * DayLen) \div 24
DEFAULT_TIME_DOWN_NON_WORKDAY == (37 * DayLen) \div 48

MANUAL_OVERRIDE_RESET_NONE == "none"
MANUAL_OVERRIDE_RESET_TIME == "time"
MANUAL_OVERRIDE_RESET_TIMEOUT == "timeout"

Abs(x) == IF x < 0 THEN 0 - x ELSE x

Min(S) == CHOOSE x \in S : \A y \in S : x <= y

TimesOfDay == 0 .. (DayLen - 1)

-----------------------------------------------------------------------------
(* Pure helpers of ShutterController.  c is the controller's fields         *)
(* (including c.config), h the host state, t the current time.             *)

\* _parse_time: a valid time of day is returned, anything else is None
_parse_time(value) == IF value \in TimesOfDay THEN value ELSE None

\* _position_value: float(config.get(key, default))
_position_value(c, key) == c.config[key]

\* _current_position: the cover's current_position attribute, None if absent
_current_position(c, h) == h.position[c.cover]

\* _auto_enabled: the toggle entity's state if configured and present, else the flag
_auto_enabled(c, h, key) ==
    IF h.toggle[key] # "absent" THEN h.toggle[key] = "on" ELSE c.config[key]

_is_workday(c, h) ==
    IF ~c.config.workday_sensor THEN TRUE ELSE h.workday

_is_window_open(c, h) ==
    IF ~c.config.window_sensors THEN FALSE ELSE h.window

_is_resident_sleeping(c, h) ==
    IF ~c.config.resident_sensor THEN FALSE ELSE h.resident

_time_setting(c, workday, is_up) ==
    LET value_key == IF workday
                     THEN (IF is_up THEN "time_up_workday" ELSE "time_down_workday")
                     ELSE (IF is_up THEN "time_up_non_workday" ELSE "time_down_non_workday")
        fallback == IF workday
                    THEN (IF is_up THEN DEFAULT_TIME_UP_WORKDAY ELSE DEFAULT_TIME_DOWN_WORKDAY)
                    ELSE (IF is_up THEN DEFAULT_TIME_UP_NON_WORKDAY
                                   ELSE DEFAULT_TIME_DOWN_NON_WORKDAY)
        parsed == _parse_time(c.config[value_key])
    IN  IF parsed # None THEN parsed ELSE _parse_time(fallback)

\* dt_util.as_local / as_utc: the same instant on the local clock
as_local(h, t) == t + h.utc_offset
as_utc(h, t) == t - h.utc_offset
\* datetime.date() of a local timestamp, as a day number
date_of(local) == local \div DayLen
\* datetime.combine(date, time, tz), as a local timestamp
combine(date, tod) == date * DayLen + tod

\* the roll-over to the next day taken only when the candidate is strictly past
_next_time_for_point_strict(h, scheduled, t) ==
    IF scheduled = None THEN None
    ELSE LET local_now == as_local(h, t)
             candidate_local == combine(date_of(local_now), scheduled)
         IN  IF candidate_local < local_now
             THEN as_utc(h, candidate_local + DayLen)
             ELSE as_utc(h, candidate_local)

_next_time_for_point(h, scheduled, t) ==
    IF scheduled = None THEN None
    ELSE LET local_now == as_local(h, t)
             candidate_local == combine(date_of(local_now), scheduled)
         IN  IF candidate_local <= local_now
             THEN as_utc(h, candidate_local + DayLen)
             ELSE as_utc(h, candidate_local)

_window_start(date_value, open_time) == combine(date_value, open_time)
_window_end(date_value, open_time, close_time) ==
    IF combine(date_value, close_time) <= combine(date_value, open_time)
    THEN combine(date_value, close_time) + DayLen
    ELSE combine(date_value, close_time)

_within_window(h, open_time, close_time, t) ==
    IF open_time = None \/ close_time = None THEN FALSE
    ELSE LET local_now == as_local(h, t)
         IN  \E offset \in {0, -1} :
                LET d == date_of(local_now) + offset
                IN  /\ _window_start(d, open_time) <= local_now
                    /\ local_now < _window_end(d, open_time, close_time)

_within_open_close_window(c, h, t) ==
    LET workday == _is_workday(c, h)
    IN  _within_window(h, _time_setting(c, workday, TRUE),
                       _time_setting(c, workday, FALSE), t)

_event_due(target, t) == IF target = None THEN FALSE ELSE t >= target

_sun_allows_open(c, h, sun_elevation) ==
    IF ~_auto_enabled(c, h, "auto_sun_enabled") THEN TRUE
    ELSE IF sun_elevation = None THEN FALSE
    ELSE sun_elevation >= c.config.sun_elevation_open

\* an unavailable elevation does not stand in the way of closing
_sun_allows_close_unknown_ok(c, h, sun_elevation) ==
    IF ~_auto_enabled(c, h, "auto_sun_enabled") THEN TRUE
    ELSE IF sun_elevation = None THEN TRUE
    ELSE sun_elevation <= c.config.sun_elevation_close

_sun_allows_close(c, h, sun_elevation) ==
    IF ~_auto_enabled(c, h, "auto_sun_enabled") THEN TRUE
    ELSE IF sun_elevation = None THEN FALSE
    ELSE sun_elevation <= c.config.sun_elevation_close

_brightness_allows_open(c, h, brightness) ==
    IF ~_auto_enabled(c, h, "auto_brightness_enabled") \/ brightness = None THEN TRUE
    ELSE brightness >= c.config.brightness_open_above

_brightness_allows_close(c, h, brightness) ==
    IF ~_auto_enabled(c, h, "auto_brightness_enabled") \/ brightness = None THEN TRUE
    ELSE brightness <= c.config.brightness_close_below

_cold_threshold(c) == c.config.cold_protection_temperature

\* a sensor-domain forecast entity: its state as a float, None if not configured
_cold_forecast_temperature(c, h) ==
    IF ~c.config.cold_protection_forecast_sensor THEN None ELSE h.forecast

_cold_protection_needed(c, h, sun_elevation) ==
    IF sun_elevation # None /\ sun_elevation > 0 THEN FALSE
    ELSE IF _cold_threshold(c) = None THEN FALSE
    ELSE IF h.outdoor # None /\ h.outdoor <= _cold_threshold(c) THEN TRUE
    ELSE IF /\ _cold_forecast_temperature(c, h) # None
            /\ _cold_forecast_temperature(c, h) <= _cold_threshold(c) THEN TRUE
    ELSE FALSE

_temperature_allows_shading(c, h) ==
    LET forecast_threshold == c.config.temperature_forecast_threshold
        forecast_hot == IF forecast_threshold # None THEN forecast_threshold > 0 ELSE FALSE
        threshold == c.config.temperature_threshold
    IN  IF h.indoor # None /\ h.indoor >= threshold THEN TRUE
        ELSE IF h.outdoor # None /\ h.outdoor >= threshold THEN TRUE
        ELSE forecast_hot

_shading_conditions(c, h, sun_azimuth, sun_elevation, brightness) ==
    IF sun_azimuth = None \/ sun_elevation = None THEN FALSE
    ELSE IF brightness = None THEN FALSE
    ELSE IF ~(/\ c.config.shading_azimuth_start <= sun_azimuth
              /\ sun_azimuth <= c.config.shading_azimuth_end
              /\ c.config.shading_elevation_min <= sun_elevation
              /\ sun_elevation <= c.config.shading_elevation_max) THEN FALSE
    ELSE IF brightness < c.config.shading_brightness_start THEN FALSE
    ELSE IF c.reason = "shading" /\ brightness <= c.config.shading_brightness_end THEN FALSE
    ELSE _temperature_allows_shading(c, h) \/ brightness >= c.config.shading_brightness_start

_position_matches(c, target, current) ==
    IF target = None \/ current = None THEN FALSE
    ELSE Abs(current - target) <= _position_value(c, "position_tolerance")

_shading_is_active(c, current_position, shading_enabled) ==
    IF ~shading_enabled THEN FALSE
    ELSE IF c.reason \notin {"shading", "manual_shading"} THEN FALSE
    ELSE _position_matches(c, _position_value(c, "shading_position"), current_position)

_ventilation_is_active(c, current_position) ==
    IF c.reason # "ventilation" THEN FALSE
    ELSE _position_matches(c, _position_value(c, "ventilate_position"), current_position)

_refresh_next_events(c, h, t) ==
    LET sun_enabled == _auto_enabled(c, h, "auto_sun_enabled")
        workday == _is_workday(c, h)
        next_up == _next_time_for_point(h, _time_setting(c, workday, TRUE), t)
        next_down == _next_time_for_point(h, _time_setting(c, workday, FALSE), t)
        candidates_open ==
            (IF sun_enabled /\ h.next_rising # None THEN {h.next_rising} ELSE {})
            \cup (IF ~sun_enabled /\ _auto_enabled(c, h, "auto_up_enabled") /\ next_up # None
                  THEN {next_up} ELSE {})
        candidates_close ==
            (IF sun_enabled /\ h.next_setting # None THEN {h.next_setting} ELSE {})
            \cup (IF ~sun_enabled /\ _auto_enabled(c, h, "auto_down_enabled") /\ next_down # None
                  THEN {next_down} ELSE {})
        open1 == IF candidates_open # {} THEN Min(candidates_open) ELSE None
        close1 == IF candidates_close # {} THEN Min(candidates_close) ELSE None
    IN  [c EXCEPT
            !.next_open = IF ~sun_enabled /\ open1 = None /\ next_up # None
                          THEN next_up ELSE open1,
            !.next_close = IF ~sun_enabled /\ close1 = None /\ next_down # None
                           THEN next_down ELSE close1]

-----------------------------------------------------------------------------
(* Handlers.  A handler works on a frame: the controller's fields plus the  *)
(* list `sent` of the set_cover_position calls it has issued so far.       *)

Frame(c) == [f \in DOMAIN c \cup {"sent"} |-> IF f = "sent" THEN <<>> ELSE c[f]]
Fields(c) == [f \in DOMAIN c \ {"sent"} |-> c[f]]

\* detection that does not look at the override already active
_manual_detection_while_active(c) ==
    \E flag \in {"manual_override_block_open", "manual_override_block_close",
                 "manual_override_block_ventilate", "manual_override_block_shading"} :
        c.config[flag]

_manual_detection_enabled(c) ==
    IF c.manual_active THEN FALSE
    ELSE \E flag \in {"manual_override_block_open", "manual_override_block_close",
                      "manual_override_block_ventilate", "manual_override_block_shading"} :
            c.config[flag]

\* a reset time that is not configured is not replaced by the default one
_manual_reset_at_no_default_time(c, h, t, minutes) ==
    IF minutes # None THEN t + minutes
    ELSE IF c.config.manual_override_reset_mode = MANUAL_OVERRIDE_RESET_NONE THEN None
    ELSE IF c.config.manual_override_reset_mode = MANUAL_OVERRIDE_RESET_TIME
         THEN _next_time_for_point(h, _parse_time(c.config.manual_override_reset_time), t)
    ELSE IF c.config.manual_override_minutes # None
         THEN t + c.config.manual_override_minutes
         ELSE t + DefaultOverrideMinutes

_manual_reset_at(c, h, t, minutes) ==
    IF minutes # None THEN t + minutes
    ELSE IF c.config.manual_override_reset_mode = MANUAL_OVERRIDE_RESET_NONE THEN None
    ELSE IF c.config.manual_override_reset_mode = MANUAL_OVERRIDE_RESET_TIME
         THEN LET reset_time ==
                    IF _parse_time(c.config.manual_override_reset_time) # None
                    THEN _parse_time(c.config.manual_override_reset_time)
                    ELSE _parse_time(DEFAULT_MANUAL_OVERRIDE_RESET_TIME)
              IN  _next_time_for_point(h, reset_time, t)
    ELSE IF c.config.manual_override_minutes # None
         THEN t + c.config.manual_override_minutes
         ELSE t + DefaultOverrideMinutes

_activate_manual_override(c, h, t, minutes, scope_all, reason) ==
    LET scope == c.manual_scope_all \/ scope_all
        c1 == [c EXCEPT !.manual_active = TRUE,
                        !.manual_scope_all = scope,
                        !.manual_until = _manual_reset_at(c, h, t, minutes),
                        !.reason = IF reason # NoReason THEN reason
                                   ELSE IF scope THEN "manual_override"
                                   ELSE c.reason]
    IN  _refresh_next_events(c1, h, t)

\* only a scope-all override blocks: the per-action flags are not read
_manual_blocks_scope_only(c, action) ==
    IF ~c.manual_active THEN FALSE ELSE c.manual_scope_all

_manual_blocks_action(c, action) ==
    IF ~c.manual_active THEN FALSE
    ELSE IF c.manual_scope_all THEN TRUE
    ELSE IF action = "open" THEN c.config.manual_override_block_open
    ELSE IF action = "close" THEN c.config.manual_override_block_close
    ELSE IF action = "ventilation" THEN c.config.manual_override_block_ventilate
    ELSE IF action = "shading" THEN c.config.manual_override_block_shading
    ELSE FALSE

\* config.get(CONF_MANUAL_OVERRIDE_MINUTES, DEFAULT_MANUAL_OVERRIDE_MINUTES)
_configured_minutes(c) ==
    IF c.config.manual_override_minutes # None
    THEN c.config.manual_override_minutes ELSE DefaultOverrideMinutes

\* the minutes are passed on as given: 0 is not replaced by the configured duration
set_manual_override_given_minutes(c, h, t, minutes) ==
    LET duration == IF minutes # None THEN minutes ELSE _configured_minutes(c)
    IN  _activate_manual_override(c, h, t, duration, TRUE, "manual_override")

set_manual_override(c, h, t, minutes) ==
    LET duration == IF minutes # None /\ minutes # 0 THEN minutes
                    ELSE _configured_minutes(c)
    IN  _activate_manual_override(c, h, t, duration, TRUE, "manual_override")

\* the reason is reset whatever it was
clear_manual_override_any_reason(c, h, t) ==
    _refresh_next_events(
        [c EXCEPT !.manual_until = None,
                  !.manual_active = FALSE,
                  !.manual_scope_all = FALSE,
                  !.reason = NoReason],
        h, t)

clear_manual_override(c, h, t) ==
    _refresh_next_events(
        [c EXCEPT !.manual_until = None,
                  !.manual_active = FALSE,
                  !.manual_scope_all = FALSE,
                  !.reason = IF c.reason \in {"manual_override", "manual_shading"}
                             THEN NoReason ELSE c.reason],
        h, t)

publish_state(c, h, t) == _refresh_next_events(c, h, t)

\* the expiry clears manual_until and manual_active but leaves the scope flag set
_expire_keeps_scope(c, t) ==
    IF c.manual_until # None /\ t >= c.manual_until
    THEN [c EXCEPT !.manual_until = None,
                   !.manual_active = FALSE,
                   !.reason = IF c.reason \in {"manual_override", "manual_shading"}
                              THEN NoReason ELSE c.reason]
    ELSE c

\* the expiry clears manual_until (and the reason) but leaves the two flags set
_expire_keeps_flags(c, t) ==
    IF c.manual_until # None /\ t >= c.manual_until
    THEN [c EXCEPT !.manual_until = None,
                   !.reason = IF c.reason \in {"manual_override", "manual_shading"}
                              THEN NoReason ELSE c.reason]
    ELSE c

_expire_manual_override(c, t) ==
    IF c.manual_until # None /\ t >= c.manual_until
    THEN [c EXCEPT !.manual_until = None,
                   !.manual_active = FALSE,
                   !.manual_scope_all = FALSE,
                   !.reason = IF c.reason \in {"manual_override", "manual_shading"}
                              THEN NoReason ELSE c.reason]
    ELSE c

\* the configuration is replaced and the override cleared, the schedule is left stale
update_config_stale_schedule(c, h, t, new_config) ==
    [c EXCEPT !.config = new_config,
              !.manual_until = None,
              !.manual_active = FALSE,
              !.manual_scope_all = FALSE]

\* update_config, up to the creation of the evaluation task
update_config(c, h, t, new_config) ==
    _refresh_next_events(
        [c EXCEPT !.config = new_config,
                  !.manual_until = None,
                  !.manual_active = FALSE,
                  !.manual_scope_all = FALSE],
        h, t)

\* the tuple with the stored reason handed out as it is
_state_tuple_raw_reason(c, h) ==
    LET current_position == _current_position(c, h)
        shading_enabled == _auto_enabled(c, h, "auto_shading_enabled")
    IN  <<c.target,
          c.reason,
          c.manual_until,
          c.manual_active,
          c.next_open,
          c.next_close,
          current_position,
          shading_enabled,
          _shading_is_active(c, current_position, shading_enabled),
          _ventilation_is_active(c, current_position)>>

\* the tuple that state_snapshot returns and _publish_state broadcasts
_state_tuple(c, h) ==
    LET current_position == _current_position(c, h)
        shading_enabled == _auto_enabled(c, h, "auto_shading_enabled")
    IN  <<c.target,
          IF c.reason # NoReason THEN c.reason ELSE IDLE_REASON,
          c.manual_until,
          c.manual_active,
          c.next_open,
          c.next_close,
          current_position,
          shading_enabled,
          _shading_is_active(c, current_position, shading_enabled),
          _ventilation_is_active(c, current_position)>>

\* the stored reason is handed out as it is
state_snapshot_raw_reason(c, h, t) ==
    LET c1 == _refresh_next_events(c, h, t)
    IN  [c |-> c1,
         returned |-> [_state_tuple(c1, h) EXCEPT ![2] = c1.reason],
         dispatched |-> <<>>]

\* state_snapshot: the controller it leaves, the tuple it returns, and the
\* dispatcher signals it sends (it does not call _publish_state)
state_snapshot(c, h, t) ==
    LET c1 == _refresh_next_events(c, h, t)
    IN  [c |-> c1, returned |-> _state_tuple(c1, h), dispatched |-> <<>>]

\* the guard without the comparison of the reason
_set_position_any_reason(c, h, t, position, reason) ==
    IF position = None THEN c
    ELSE IF /\ _current_position(c, h) # None
            /\ Abs(_current_position(c, h) - position) <= _position_value(c, "position_tolerance")
         THEN c
         ELSE _refresh_next_events(
                [c EXCEPT !.sent = Append(c.sent, [position |-> position, reason |-> reason]),
                          !.target = position,
                          !.reason = reason],
                h, t)

_set_position(c, h, t, position, reason) ==
    IF position = None THEN c
    ELSE LET tolerance == _position_value(c, "position_tolerance")
             current == _current_position(c, h)
         IN  IF current # None /\ Abs(current - position) <= tolerance /\ c.reason = reason
             THEN c
             ELSE _refresh_next_events(
                    [c EXCEPT !.sent = Append(c.sent, [position |-> position, reason |-> reason]),
                              !.target = position,
                              !.reason = reason],
                    h, t)

-----------------------------------------------------------------------------
(* _evaluate: the rule cascade, one operator per rule in the order of the   *)
(* code; each rule either returns or falls through to the next one.  e is  *)
(* the locals read at the start (up_due, down_due, brightness, sun).       *)

\* lines 583-584: nothing fired
_rule_none(c, h, t, e) == _refresh_next_events(c, h, t)

\* lines 571-581: auto-down
_rule_auto_down(c, h, t, e) ==
    IF _auto_enabled(c, h, "auto_down_enabled") /\ e.down_due
    THEN IF /\ _sun_allows_close(c, h, e.sun_elevation)
            /\ _brightness_allows_close(c, h, e.brightness)
            /\ ~_manual_blocks_action(c, "close")
         THEN _set_position(c, h, t, _position_value(c, "close_position"), "scheduled_close")
         ELSE [c EXCEPT !.next_close = t + 1]
    ELSE _rule_none(c, h, t, e)

\* auto-up only when the open event is due or the sun allows it: the open/close
\* window is not consulted
_rule_auto_up_no_window(c, h, t, e) ==
    LET sun_open_enabled == _auto_enabled(c, h, "auto_sun_enabled")
        sun_allows_open == sun_open_enabled /\ _sun_allows_open(c, h, e.sun_elevation)
    IN  IF /\ _auto_enabled(c, h, "auto_up_enabled")
           /\ (e.up_due \/ sun_allows_open)
        THEN IF /\ _brightness_allows_open(c, h, e.brightness)
                /\ (sun_allows_open \/ ~sun_open_enabled)
                /\ ~_manual_blocks_action(c, "open")
             THEN _set_position(c, h, t, _position_value(c, "open_position"), "scheduled_open")
             ELSE [c EXCEPT !.next_open = t + 1]
        ELSE _rule_auto_down(c, h, t, e)

\* lines 554-569: auto-up
_rule_auto_up(c, h, t, e) ==
    LET time_window_open == _within_open_close_window(c, h, t)
        sun_open_enabled == _auto_enabled(c, h, "auto_sun_enabled")
        sun_allows_open == sun_open_enabled /\ _sun_allows_open(c, h, e.sun_elevation)
    IN  IF /\ _auto_enabled(c, h, "auto_up_enabled")
           /\ (e.up_due \/ time_window_open \/ sun_allows_open)
        THEN IF /\ _brightness_allows_open(c, h, e.brightness)
                /\ (sun_allows_open \/ ~sun_open_enabled)
                /\ ~_manual_blocks_action(c, "open")
             THEN _set_position(c, h, t, _position_value(c, "open_position"), "scheduled_open")
             ELSE [c EXCEPT !.next_open = t + 1]
        ELSE _rule_auto_down(c, h, t, e)

\* lines 545-552: sun close
_rule_sun_close(c, h, t, e) ==
    IF /\ _auto_enabled(c, h, "auto_sun_enabled")
       /\ _sun_allows_close(c, h, e.sun_elevation)
       /\ _brightness_allows_close(c, h, e.brightness)
       /\ ~_manual_blocks_action(c, "close")
    THEN _set_position(c, h, t, _position_value(c, "close_position"), "sun_close")
    ELSE _rule_auto_up(c, h, t, e)

\* the shading rule without the end of shading
_rule_shading_without_end(c, h, t, e) ==
    IF /\ _auto_enabled(c, h, "auto_shading_enabled") /\ ~_manual_blocks_action(c, "shading")
       /\ _shading_conditions(c, h, e.sun_azimuth, e.sun_elevation, e.brightness)
    THEN _set_position(c, h, t, _position_value(c, "shading_position"), "shading")
    ELSE _rule_sun_close(c, h, t, e)

\* lines 508-543: shading, and the end of shading
_rule_shading(c, h, t, e) ==
    IF _auto_enabled(c, h, "auto_shading_enabled") /\ ~_manual_blocks_action(c, "shading")
    THEN LET shading_active == c.reason \in {"shading", "manual_shading"}
             shading_allowed ==
                _shading_conditions(c, h, e.sun_azimuth, e.sun_elevation, e.brightness)
         IN  IF /\ shading_active /\ ~shading_allowed
                /\ _auto_enabled(c, h, "auto_down_enabled")
                /\ _sun_allows_close(c, h, e.sun_elevation)
                /\ _brightness_allows_close(c, h, e.brightness)
                /\ ~_manual_blocks_action(c, "close")
             THEN _set_position(c, h, t, _position_value(c, "close_position"),
                                "shading_end_close")
             ELSE IF /\ shading_active /\ ~shading_allowed
                     /\ _auto_enabled(c, h, "auto_up_enabled")
                     /\ _sun_allows_open(c, h, e.sun_elevation)
                     /\ _brightness_allows_open(c, h, e.brightness)
                     /\ ~_manual_blocks_action(c, "open")
             THEN _set_position(c, h, t, _position_value(c, "open_position"),
                                "shading_end_open")
             ELSE IF shading_allowed
             THEN _set_position(c, h, t, _position_value(c, "shading_position"), "shading")
             ELSE _rule_sun_close(c, h, t, e)
    ELSE _rule_sun_close(c, h, t, e)

\* lines 501-506: cold protection
_rule_cold_protection(c, h, t, e) ==
    IF /\ _auto_enabled(c, h, "auto_cold_protection_enabled")
       /\ _cold_protection_needed(c, h, e.sun_elevation)
    THEN _set_position(c, h, t, _position_value(c, "close_position"), "cold_protection")
    ELSE _rule_shading(c, h, t, e)

\* ventilation tried only after the later rules have issued nothing
_rule_ventilation_last(c, h, t, e) ==
    IF _rule_cold_protection(c, h, t, e).sent # <<>>
    THEN _rule_cold_protection(c, h, t, e)
    ELSE IF /\ _auto_enabled(c, h, "auto_ventilate_enabled") /\ _is_window_open(c, h)
            /\ ~_manual_blocks_action(c, "ventilation")
    THEN _set_position(c, h, t, _position_value(c, "ventilate_position"), "ventilation")
    ELSE _rule_cold_protection(c, h, t, e)

\* lines 493-499: ventilation
_rule_ventilation(c, h, t, e) ==
    IF _auto_enabled(c, h, "auto_ventilate_enabled") /\ _is_window_open(c, h)
    THEN IF ~_manual_blocks_action(c, "ventilation")
         THEN _set_position(c, h, t, _position_value(c, "ventilate_position"), "ventilation")
         ELSE c
    ELSE _rule_cold_protection(c, h, t, e)

\* the resident rule without its return: the cascade goes on after the command
_rule_resident_no_return(c, h, t, e) ==
    IF _is_resident_sleeping(c, h)
    THEN _rule_ventilation(
            _set_position(c, h, t, _position_value(c, "close_position"), "resident_asleep"),
            h, t, e)
    ELSE _rule_ventilation(c, h, t, e)

\* lines 486-491: resident asleep
_rule_resident(c, h, t, e) ==
    IF _is_resident_sleeping(c, h)
    THEN _set_position(c, h, t, _position_value(c, "close_position"), "resident_asleep")
    ELSE _rule_ventilation(c, h, t, e)

\* the cascade runs whether or not a scope-all override is active
_evaluate_without_scope_all(c0, h, t) ==
    LET c == _expire_manual_override(c0, t)
        e == [up_due |-> _event_due(c.next_open, t),
              down_due |-> _event_due(c.next_close, t),
              brightness |-> IF c.config.brightness_sensor THEN h.brightness ELSE None,
              sun_elevation |-> h.sun_elevation,
              sun_azimuth |-> h.sun_azimuth]
    IN  _rule_resident(c, h, t, e)

_evaluate(c0, h, t) ==
    LET c == _expire_manual_override(c0, t)
        e == [up_due |-> _event_due(c.next_open, t),
              down_due |-> _event_due(c.next_close, t),
              brightness |-> IF c.config.brightness_sensor THEN h.brightness ELSE None,
              sun_elevation |-> h.sun_elevation,
              sun_azimuth |-> h.sun_azimuth]
    IN  IF c.manual_active /\ c.manual_scope_all
        THEN _refresh_next_events(c, h, t)
        ELSE _rule_resident(c, h, t, e)

-----------------------------------------------------------------------------
(* recalibrate: a coroutine that suspends at each blocking service call and *)
(* at each sleep of _wait_for_position.  pc is where it is suspended.      *)

\* _wait_for_position's timeout (60 seconds), in minutes
WaitTimeout == 1

RecalIdle ==
    [pc |-> "idle", manual_state |-> <<None, FALSE, FALSE, NoReason>>,
     current_position |-> None, target_open |-> None, end |-> None]

_normalize_position(value, default) ==
    LET position == IF value = None THEN default ELSE value
    IN  IF position < 0 THEN 0 ELSE IF position > 100 THEN 100 ELSE position

\* the finally block, lines 452-460
_recalibrate_finally(c, h, t, manual_state) ==
    _refresh_next_events(
        [c EXCEPT !.manual_until = manual_state[1],
                  !.manual_active = manual_state[2],
                  !.manual_scope_all = manual_state[3],
                  !.reason = manual_state[4]],
        h, t)

\* the exception leaves recalibrate without the finally block being run
_recalibrate_no_finally(c, h, t, manual_state) == c

\* an exception or a cancellation raised at an await inside the try block
_recalibrate_raised(c, h, t, manual_state) == _recalibrate_finally(c, h, t, manual_state)

\* _command_position: a blocking set_cover_position call
_command_position(c, position) ==
    [c EXCEPT !.sent = Append(c.sent, [position |-> position, reason |-> NoReason])]

\* the loop goes on until the position is reached: the deadline is not looked at
_wait_over_no_deadline(c, h, t, target, end) ==
    /\ _current_position(c, h) # None
    /\ Abs(_current_position(c, h) - target) <= _position_value(c, "position_tolerance")

\* one pass of the loop of _wait_for_position: TRUE when the wait is over
_wait_over(c, h, t, target, end) ==
    \/ ~(t < end)
    \/ /\ _current_position(c, h) # None
       /\ Abs(_current_position(c, h) - target) <= _position_value(c, "position_tolerance")

-----------------------------------------------------------------------------
(* Configuration.  Thresholds are small numbers in the order of the        *)
(* defaults of const.py: brightness_close_below < brightness_open_above <  *)
(* shading_brightness_end < shading_brightness_start, and                  *)
(* sun_elevation_close < sun_elevation_open <= 0 < shading_elevation_min.  *)

AutoKeys ==
    {"auto_up_enabled", "auto_down_enabled", "auto_brightness_enabled", "auto_sun_enabled",
     "auto_ventilate_enabled", "auto_shading_enabled", "auto_cold_protection_enabled"}

DefaultConfig ==
    [auto_up_enabled |-> TRUE, auto_down_enabled |-> TRUE,
     auto_brightness_enabled |-> TRUE, auto_sun_enabled |-> TRUE,
     auto_ventilate_enabled |-> TRUE, auto_shading_enabled |-> TRUE,
     auto_cold_protection_enabled |-> FALSE,
     manual_override_block_open |-> TRUE, manual_override_block_close |-> TRUE,
     manual_override_block_ventilate |-> TRUE, manual_override_block_shading |-> TRUE,
     manual_override_minutes |-> None,
     manual_override_reset_mode |-> MANUAL_OVERRIDE_RESET_TIMEOUT,
     manual_override_reset_time |-> None,
     open_position |-> DEFAULT_OPEN_POSITION, close_position |-> DEFAULT_CLOSE_POSITION,
     ventilate_position |-> DEFAULT_VENTILATE_POSITION,
     shading_position |-> DEFAULT_SHADING_POSITION,
     position_tolerance |-> DEFAULT_TOLERANCE,
     time_up_workday |-> None, time_down_workday |-> None,
     time_up_non_workday |-> None, time_down_non_workday |-> None,
     brightness_close_below |-> 1, brightness_open_above |-> 2,
     shading_brightness_end |-> 3, shading_brightness_start |-> 5,
     sun_elevation_close |-> -2, sun_elevation_open |-> -1,
     shading_elevation_min |-> 2, shading_elevation_max |-> 3,
     shading_azimuth_start |-> 1, shading_azimuth_end |-> 2,
     temperature_threshold |-> 2, temperature_forecast_threshold |-> 3,
     cold_protection_temperature |-> 0,
     workday_sensor |-> TRUE, window_sensors |-> TRUE, resident_sensor |-> TRUE,
     brightness_sensor |-> TRUE, cold_protection_forecast_sensor |-> FALSE]

\* async_setup, lines 240-257: the timer and one state-change subscription per
\* configured entity (the temperature sensors are always configured here)
_subscriptions(cover, config) ==
    {"interval", cover, "indoor", "outdoor"}
    \cup (IF config.brightness_sensor THEN {"brightness"} ELSE {})
    \cup (IF config.workday_sensor THEN {"workday"} ELSE {})
    \cup (IF config.cold_protection_forecast_sensor THEN {"forecast"} ELSE {})
    \cup (IF config.resident_sensor THEN {"resident"} ELSE {})
    \cup (IF config.window_sensors THEN {"window"} ELSE {})

\* ShutterController.__init__ followed by async_setup
NewController(cover, config, h, t) ==
    _refresh_next_events(
        [cover |-> cover, config |-> config, unsubs |-> _subscriptions(cover, config),
         manual_until |-> None, manual_active |-> FALSE, manual_scope_all |-> FALSE,
         target |-> None, reason |-> NoReason,
         next_open |-> None, next_close |-> None],
        h, t)

InitialHass(covers, utc_offset) ==
    [position |-> [cv \in covers |-> DEFAULT_CLOSE_POSITION],
     resident |-> FALSE, window |-> FALSE, workday |-> TRUE,
     brightness |-> None, sun_elevation |-> None, sun_azimuth |-> None,
     outdoor |-> None, indoor |-> None, forecast |-> None,
     next_rising |-> None, next_setting |-> None,
     utc_offset |-> utc_offset,
     toggle |-> [k \in AutoKeys |-> "absent"]]

\* eval: _evaluate coroutines not yet started; set_position: _set_position
\* coroutines not yet started; awaiting: the calls of evaluations suspended at
\* the await of _set_position
NoTasks == [eval |-> 0, set_position |-> <<>>, awaiting |-> <<>>]

\* ControllerManager.async_setup over the covers of the entry
InitWith(covers, configs, offsets) ==
    /\ now = 0
    /\ \E off \in offsets : hass = InitialHass(covers, off)
    /\ \E config \in configs :
          controllers = [cv \in covers |-> NewController(cv, config, hass, now)]
    /\ manager = [controllers |-> covers]
    /\ tasks = [cv \in covers |-> NoTasks]
    /\ recal = [cv \in covers |-> RecalIdle]
    /\ sent = <<>>
    /\ last = [op |-> "setup", cover |-> "", expired |-> FALSE]

-----------------------------------------------------------------------------
(* Actions.  D gives the values the environment draws sensor states and    *)
(* service-call arguments from.                                            *)

Covers == DOMAIN controllers

\* the label of a step: the handler, its cover, and whether it found the override expired
Did(op, cv) == [op |-> op, cover |-> cv, expired |-> FALSE]

Expired(c, t) == c.manual_until # None /\ t >= c.manual_until

Store(cv, c) == [controllers EXCEPT ![cv] = Fields(c)]

AddEvalTask(cvs) ==
    [cv \in DOMAIN tasks |->
        IF cv \in cvs THEN [tasks[cv] EXCEPT !.eval = @ + 1] ELSE tasks[cv]]

\* the clock advances
AdvanceTime ==
    /\ now < MaxNow
    /\ now' = now + 1
    /\ sent' = <<>>
    /\ last' = Did("env", "")
    /\ UNCHANGED <<manager, hass, controllers, tasks, recal>>

\* _handle_interval: the one-minute timer creates an evaluation task
HandleInterval(cv) ==
    /\ "interval" \in controllers[cv].unsubs
    /\ tasks[cv].eval < MaxPending
    /\ tasks' = AddEvalTask({cv})
    /\ sent' = <<>>
    /\ last' = Did("interval", cv)
    /\ UNCHANGED <<manager, now, hass, controllers, recal>>

\* _handle_state_event, up to the creation of the evaluation task
_handle_state_event(c, h, t, entity_id) ==
    LET c1 == _expire_manual_override(c, t)
        tolerance == _position_value(c1, "position_tolerance")
        current == _current_position(c1, h)
    IN  IF /\ entity_id = c1.cover
           /\ current # None
           /\ c1.target # None
           /\ Abs(current - c1.target) > tolerance
           /\ _manual_detection_enabled(c1)
        THEN _activate_manual_override(c1, h, t, None, FALSE, "manual_override")
        ELSE c1

\* the controllers whose state-change subscription for the entity is live
Tracking(entity_id) == {cv \in Covers : entity_id \in controllers[cv].unsubs}

\* a sensor entity changes state: the callback of every controller tracking it runs
SensorEvent(D) ==
    \E f \in {"resident", "window", "workday", "brightness", "outdoor"} :
      \E v \in D[f] :
        /\ v # hass[f]
        /\ \A cv \in Tracking(f) : tasks[cv].eval < MaxPending
        /\ hass' = [hass EXCEPT ![f] = v]
        /\ controllers' =
              [cv \in Covers |->
                  IF cv \in Tracking(f)
                  THEN _handle_state_event(controllers[cv], hass', now, f)
                  ELSE controllers[cv]]
        /\ tasks' = AddEvalTask(Tracking(f))
        /\ sent' = <<>>
        /\ last' = Did("state_event", "")
        /\ UNCHANGED <<manager, now, recal>>

\* the cover entity reports a state change (its position attribute may have changed)
CoverEvent(D, cv) ==
    \E p \in D.position :
        /\ cv \in Tracking(cv)
        /\ tasks[cv].eval < MaxPending
        /\ hass' = [hass EXCEPT !.position[cv] = p]
        /\ controllers' = [controllers EXCEPT
                              ![cv] = _handle_state_event(controllers[cv], hass', now, cv)]
        /\ tasks' = AddEvalTask({cv})
        /\ sent' = <<>>
        /\ last' = Did("cover_event", cv)
        /\ UNCHANGED <<manager, now, recal>>

\* sun.sun changes; the controllers do not track it
SunChange(D) ==
    \E sun \in D.sun :
        /\ sun # <<hass.sun_elevation, hass.sun_azimuth>>
        /\ hass' = [hass EXCEPT !.sun_elevation = sun[1], !.sun_azimuth = sun[2]]
        /\ sent' = <<>>
        /\ last' = Did("env", "")
        /\ UNCHANGED <<manager, now, controllers, tasks, recal>>

\* an evaluation task runs
Evaluate(cv) ==
    /\ tasks[cv].eval > 0
    /\ LET c == _evaluate(Frame(controllers[cv]), hass, now)
       IN  /\ controllers' = Store(cv, c)
           /\ sent' = c.sent
    /\ tasks' = [tasks EXCEPT ![cv].eval = @ - 1]
    /\ last' = [Did("evaluate", cv) EXCEPT !.expired = Expired(controllers[cv], now)]
    /\ UNCHANGED <<manager, now, hass, recal>>

\* an evaluation task runs up to the await in _set_position and is suspended
\* there: the override expiry has run and the service call has been issued,
\* target and reason are not yet recorded
EvaluateDecide(cv) ==
    LET r == _evaluate(Frame(controllers[cv]), hass, now)
    IN  /\ tasks[cv].eval > 0
        /\ Len(tasks[cv].awaiting) < MaxPending
        /\ r.sent # <<>>
        /\ controllers' = Store(cv, _expire_manual_override(controllers[cv], now))
        /\ sent' = r.sent
        /\ tasks' = [tasks EXCEPT ![cv].eval = @ - 1,
                                  ![cv].awaiting = Append(@, r.sent[1])]
        /\ last' = [Did("evaluate_decide", cv) EXCEPT
                        !.expired = Expired(controllers[cv], now)]
        /\ UNCHANGED <<manager, now, hass, recal>>

\* a suspended evaluation resumes: _set_position, lines 794-797
EvaluateRecord(cv) ==
    /\ tasks[cv].awaiting # <<>>
    /\ LET call == Head(tasks[cv].awaiting)
       IN  controllers' = Store(cv, _refresh_next_events(
                                      [controllers[cv] EXCEPT !.target = call.position,
                                                              !.reason = call.reason],
                                      hass, now))
    /\ tasks' = [tasks EXCEPT ![cv].awaiting = Tail(@)]
    /\ sent' = <<>>
    /\ last' = Did("evaluate_record", cv)
    /\ UNCHANGED <<manager, now, hass, recal>>

\* ControllerManager.set_manual_override for a registered cover
SetManualOverride(D, cv) ==
    \E minutes \in D.minutes :
        /\ controllers' = Store(cv, set_manual_override(Frame(controllers[cv]), hass, now, minutes))
        /\ sent' = <<>>
        /\ last' = Did("set_manual_override", cv)
        /\ UNCHANGED <<manager, now, hass, tasks, recal>>

\* ControllerManager.clear_manual_override for a registered cover
ClearManualOverride(cv) ==
    /\ controllers' = Store(cv, clear_manual_override(Frame(controllers[cv]), hass, now))
    /\ sent' = <<>>
    /\ last' = Did("clear_manual_override", cv)
    /\ UNCHANGED <<manager, now, hass, tasks, recal>>

\* ControllerManager.activate_shading: sets manual_until and creates a _set_position task
ActivateShading(D, cv) ==
    \E minutes \in D.minutes :
        LET c == controllers[cv]
            duration == IF minutes # None /\ minutes # 0 THEN minutes
                        ELSE _configured_minutes(c)
        IN  /\ tasks[cv].set_position = <<>>
            /\ controllers' = [controllers EXCEPT ![cv].manual_until = now + duration]
            /\ tasks' = [tasks EXCEPT ![cv].set_position =
                            <<[position |-> c.config.shading_position,
                               reason |-> "manual_shading"]>>]
            /\ sent' = <<>>
            /\ last' = Did("activate_shading", cv)
            /\ UNCHANGED <<manager, now, hass, recal>>

\* the _set_position task created by activate_shading runs
RunSetPosition(cv) ==
    /\ tasks[cv].set_position # <<>>
    /\ LET call == Head(tasks[cv].set_position)
           c == _set_position(Frame(controllers[cv]), hass, now, call.position, call.reason)
       IN  /\ controllers' = Store(cv, c)
           /\ sent' = c.sent
    /\ tasks' = [tasks EXCEPT ![cv].set_position = Tail(@)]
    /\ last' = Did("set_position", cv)
    /\ UNCHANGED <<manager, now, hass, recal>>

\* publish_state / state_snapshot: the schedule is refreshed
PublishState(cv) ==
    /\ controllers' = Store(cv, publish_state(Frame(controllers[cv]), hass, now))
    /\ sent' = <<>>
    /\ last' = Did("publish_state", cv)
    /\ UNCHANGED <<manager, now, hass, tasks, recal>>

\* recalibrate, lines 425-446: up to the first blocking service call
RecalibrateStart(D, cv) ==
    \E full_open \in D.full_open :
        LET c0 == Frame(controllers[cv])
            target_open == _normalize_position(full_open, DEFAULT_OPEN_POSITION)
            c1 == _activate_manual_override(c0, hass, now, _configured_minutes(c0),
                                            TRUE, "manual_override")
            c2 == _command_position(c1, target_open)
        IN  /\ recal[cv].pc = "idle"
            /\ recal' = [recal EXCEPT ![cv] =
                  [pc |-> "command_open",
                   manual_state |-> <<c0.manual_until, c0.manual_active,
                                      c0.manual_scope_all, c0.reason>>,
                   current_position |-> _current_position(c0, hass),
                   target_open |-> target_open,
                   end |-> None]]
            /\ controllers' = Store(cv, c2)
            /\ sent' = c2.sent
            /\ last' = Did("recalibrate", cv)
            /\ UNCHANGED <<manager, now, hass, tasks>>

\* the finally block runs and recalibrate returns (or re-raises)
RecalibrateEnd(cv, c, op) ==
    /\ controllers' = Store(cv, c)
    /\ sent' = c.sent
    /\ recal' = [recal EXCEPT ![cv] = RecalIdle]
    /\ last' = Did(op, cv)
    /\ UNCHANGED <<manager, now, hass, tasks>>

\* lines 449-451 after the first wait is over: command the way back, or finish
RecalibrateBack(cv) ==
    LET r == recal[cv]
        c0 == Frame(controllers[cv])
    IN  IF r.current_position # None
        THEN LET c == _command_position(c0, r.current_position)
             IN  /\ controllers' = Store(cv, c)
                 /\ sent' = c.sent
                 /\ recal' = [recal EXCEPT ![cv].pc = "command_back", ![cv].end = None]
                 /\ last' = Did("recalibrate_back", cv)
                 /\ UNCHANGED <<manager, now, hass, tasks>>
        ELSE RecalibrateEnd(cv, _recalibrate_finally(c0, hass, now, r.manual_state),
                            "recalibrate_done")

\* a blocking service call returns and _wait_for_position starts
RecalibrateCommandDone(cv) ==
    LET r == recal[cv]
        c0 == Frame(controllers[cv])
        target == IF r.pc = "command_open" THEN r.target_open ELSE r.current_position
        end == now + WaitTimeout
    IN  /\ r.pc \in {"command_open", "command_back"}
        /\ IF ~_wait_over(c0, hass, now, target, end)
           THEN /\ recal' = [recal EXCEPT
                       ![cv].pc = IF r.pc = "command_open" THEN "wait_open" ELSE "wait_back",
                       ![cv].end = end]
                /\ sent' = <<>>
                /\ last' = Did("recalibrate_wait", cv)
                /\ UNCHANGED <<manager, now, hass, controllers, tasks>>
           ELSE IF r.pc = "command_open"
           THEN RecalibrateBack(cv)
           ELSE RecalibrateEnd(cv, _recalibrate_finally(c0, hass, now, r.manual_state),
                               "recalibrate_done")

\* asyncio.sleep(1) returns and the wait is over: position reached, or deadline passed
RecalibrateWaitOver(cv) ==
    LET r == recal[cv]
        c0 == Frame(controllers[cv])
        target == IF r.pc = "wait_open" THEN r.target_open ELSE r.current_position
    IN  /\ r.pc \in {"wait_open", "wait_back"}
        /\ _wait_over(c0, hass, now, target, r.end)
        /\ IF r.pc = "wait_open"
           THEN RecalibrateBack(cv)
           ELSE RecalibrateEnd(cv, _recalibrate_finally(c0, hass, now, r.manual_state),
                               "recalibrate_done")

\* the awaited call raises, or the task is cancelled while suspended
RecalibrateRaise(cv) ==
    /\ recal[cv].pc # "idle"
    /\ RecalibrateEnd(cv, _recalibrate_raised(Frame(controllers[cv]), hass, now,
                                              recal[cv].manual_state),
                      "recalibrate_raised")

-----------------------------------------------------------------------------
(* ControllerManager: its calls look the cover up in self.controllers and  *)
(* return whether a controller was found.                                   *)

\* a cover id for which the entry configures no controller
OTHER_COVER == "cover.other"

\* a controller object exists for the cover, registered or not
ControllerExists(cover) == cover \in Covers

\* self.controllers.get(cover) is truthy
Registered(cover) == cover \in manager.controllers

\* the label of a manager call: the call, the cover asked for, the value returned
Returned(op, cover, value) ==
    [op |-> op, cover |-> cover, expired |-> FALSE, returned |-> value]

\* the override is set on every registered controller, not only on the one asked for
Manager_set_manual_override_all(D) ==
    \E cover \in D.covers : \E minutes \in D.minutes :
        /\ controllers' =
              IF Registered(cover)
              THEN [cv \in Covers |->
                      IF Registered(cv)
                      THEN Fields(set_manual_override(Frame(controllers[cv]), hass, now, minutes))
                      ELSE controllers[cv]]
              ELSE controllers
        /\ sent' = <<>>
        /\ last' = Returned("set_manual_override", cover, Registered(cover))
        /\ UNCHANGED <<manager, now, hass, tasks, recal>>

\* ControllerManager.set_manual_override(cover, minutes)
Manager_set_manual_override(D) ==
    \E cover \in D.covers : \E minutes \in D.minutes :
        /\ controllers' =
              IF Registered(cover)
              THEN Store(cover, set_manual_override(Frame(controllers[cover]), hass, now, minutes))
              ELSE controllers
        /\ sent' = <<>>
        /\ last' = Returned("set_manual_override", cover, Registered(cover))
        /\ UNCHANGED <<manager, now, hass, tasks, recal>>

\* ControllerManager.clear_manual_override(cover)
Manager_clear_manual_override(D) ==
    \E cover \in D.covers :
        /\ controllers' =
              IF Registered(cover)
              THEN Store(cover, clear_manual_override(Frame(controllers[cover]), hass, now))
              ELSE controllers
        /\ sent' = <<>>
        /\ last' = Returned("clear_manual_override", cover, Registered(cover))
        /\ UNCHANGED <<manager, now, hass, tasks, recal>>

\* ControllerManager.activate_shading(cover, minutes)
Manager_activate_shading(D) ==
    \E cover \in D.covers : \E minutes \in D.minutes :
        /\ IF Registered(cover)
           THEN LET c == controllers[cover]
                    duration == IF minutes # None /\ minutes # 0 THEN minutes
                                ELSE _configured_minutes(c)
                IN  /\ tasks[cover].set_position = <<>>
                    /\ controllers' = [controllers EXCEPT ![cover].manual_until = now + duration]
                    /\ tasks' = [tasks EXCEPT ![cover].set_position =
                                    <<[position |-> c.config.shading_position,
                                       reason |-> "manual_shading"]>>]
           ELSE UNCHANGED <<controllers, tasks>>
        /\ sent' = <<>>
        /\ last' = Returned("activate_shading", cover, Registered(cover))
        /\ UNCHANGED <<manager, now, hass, recal>>

\* ControllerManager.recalibrate_cover(cover, full_open): without a controller
\* it returns at once; with one it awaits ShutterController.recalibrate
Manager_recalibrate_cover(D) ==
    \E cover \in D.covers :
        IF Registered(cover)
        THEN RecalibrateStart(D, cover)
        ELSE /\ sent' = <<>>
             /\ last' = Returned("recalibrate_cover", cover, FALSE)
             /\ UNCHANGED <<manager, now, hass, controllers, tasks, recal>>

\* what ControllerManager.state_snapshot returns without a controller
NoControllerSnapshot ==
    <<None, IDLE_REASON, None, None, FALSE, None, None, FALSE, FALSE, FALSE>>

\* ControllerManager.state_snapshot(cover)
Manager_state_snapshot(D) ==
    \E cover \in D.covers :
        /\ IF Registered(cover)
           THEN LET s == state_snapshot(Frame(controllers[cover]), hass, now)
                IN  /\ controllers' = Store(cover, s.c)
                    /\ last' = Returned("state_snapshot", cover, s.returned)
           ELSE /\ controllers' = controllers
                /\ last' = Returned("state_snapshot", cover, NoControllerSnapshot)
        /\ sent' = <<>>
        /\ UNCHANGED <<manager, now, hass, tasks, recal>>

\* ControllerManager.async_update_options: update_config on every controller,
\* each creating an evaluation task
UpdateOptions(D) ==
    \E new_config \in D.configs :
        /\ manager.controllers # {}
        /\ \A cv \in manager.controllers : tasks[cv].eval < MaxPending
        /\ controllers' =
              [cv \in Covers |->
                  IF Registered(cv)
                  THEN update_config(controllers[cv], hass, now, new_config)
                  ELSE controllers[cv]]
        /\ tasks' = AddEvalTask(manager.controllers)
        /\ sent' = <<>>
        /\ last' = [op |-> "update_config", cover |-> "", expired |-> FALSE,
                    config |-> new_config]
        /\ UNCHANGED <<manager, now, hass, recal>>

\* ControllerManager.async_unload: every controller's subscriptions are
\* cancelled and the mapping is cleared; tasks already created are left alone
Unload ==
    /\ manager.controllers # {}
    /\ controllers' =
          [cv \in Covers |->
              IF Registered(cv) THEN [controllers[cv] EXCEPT !.unsubs = {}]
              ELSE controllers[cv]]
    /\ manager' = [manager EXCEPT !.controllers = {}]
    /\ sent' = <<>>
    /\ last' = Did("async_unload", "")
    /\ UNCHANGED <<now, hass, tasks, recal>>

-----------------------------------------------------------------------------

(* Specifications *)

(* Spec: the rule cascade under the default configuration, with the        *)
(* resident, window, brightness and sun inputs and the override services.  *)
MainDomain ==
    [resident |-> BOOLEAN, window |-> BOOLEAN, workday |-> {TRUE},
     brightness |-> {None, 5}, outdoor |-> {None},
     sun |-> {<<None, None>>, <<2, 1>>},
     position |-> {None, 0, 100},
     minutes |-> {None}]

Init == InitWith({COVER_A}, {DefaultConfig}, {1})

Next ==
    \/ AdvanceTime
    \/ SensorEvent(MainDomain)
    \/ SunChange(MainDomain)
    \/ \E cv \in Covers :
          \/ HandleInterval(cv)
          \/ CoverEvent(MainDomain, cv)
          \/ Evaluate(cv)
          \/ SetManualOverride(MainDomain, cv)
          \/ ClearManualOverride(cv)

Spec == Init /\ [][Next]_vars

(* SpecShading: the shading rule and its hysteresis band (brightness at the *)
(* end threshold, between the thresholds and at the start threshold), the   *)
(* activate_shading service and the expiry of overrides.                    *)
ShadingDomain ==
    [resident |-> {FALSE}, window |-> {FALSE}, workday |-> {TRUE},
     brightness |-> {3, 4, 5}, outdoor |-> {None},
     sun |-> {<<None, None>>, <<2, 1>>},
     position |-> {30, 100},
     minutes |-> {1}]

InitShading == InitWith({COVER_A}, {DefaultConfig}, {1})

NextShading ==
    \/ AdvanceTime
    \/ SensorEvent(ShadingDomain)
    \/ SunChange(ShadingDomain)
    \/ \E cv \in Covers :
          \/ HandleInterval(cv)
          \/ CoverEvent(ShadingDomain, cv)
          \/ Evaluate(cv)
          \/ ActivateShading(ShadingDomain, cv)
          \/ RunSetPosition(cv)
          \/ SetManualOverride(ShadingDomain, cv)
          \/ ClearManualOverride(cv)

SpecShading == InitShading /\ [][NextShading]_vars

(* SpecManual: manual detection under three settings of the block flags:    *)
(* all four (the default), open only, none.  The sun is either high enough  *)
(* to open or low enough to close.                                          *)
ManualConfigs ==
    {DefaultConfig,
     [DefaultConfig EXCEPT !.manual_override_block_close = FALSE,
                           !.manual_override_block_ventilate = FALSE,
                           !.manual_override_block_shading = FALSE],
     [DefaultConfig EXCEPT !.manual_override_block_open = FALSE,
                           !.manual_override_block_close = FALSE,
                           !.manual_override_block_ventilate = FALSE,
                           !.manual_override_block_shading = FALSE]}

ManualDomain ==
    [resident |-> BOOLEAN, window |-> BOOLEAN, workday |-> {TRUE},
     brightness |-> {None}, outdoor |-> {None},
     sun |-> {<<2, 1>>, <<-3, 1>>},
     position |-> {0, 40, 100},
     minutes |-> {None}]

InitManual == InitWith({COVER_A}, ManualConfigs, {1})

NextManual ==
    \/ AdvanceTime
    \/ SensorEvent(ManualDomain)
    \/ SunChange(ManualDomain)
    \/ \E cv \in Covers :
          \/ HandleInterval(cv)
          \/ CoverEvent(ManualDomain, cv)
          \/ Evaluate(cv)
          \/ SetManualOverride(ManualDomain, cv)
          \/ ClearManualOverride(cv)

SpecManual == InitManual /\ [][NextManual]_vars

(* SpecRecal: the recalibrate coroutine interleaved with the timer, cover   *)
(* events, the resident sensor, evaluations and set_manual_override.        *)
RecalDomain ==
    [resident |-> BOOLEAN, window |-> {FALSE}, workday |-> {TRUE},
     brightness |-> {None}, outdoor |-> {None},
     sun |-> {<<None, None>>},
     position |-> {None, 100},
     minutes |-> {None},
     full_open |-> {None, 90}]

InitRecal == InitWith({COVER_A}, {DefaultConfig}, {1})

NextRecal ==
    \/ AdvanceTime
    \/ SensorEvent(RecalDomain)
    \/ \E cv \in Covers :
          \/ HandleInterval(cv)
          \/ CoverEvent(RecalDomain, cv)
          \/ Evaluate(cv)
          \/ SetManualOverride(RecalDomain, cv)
          \/ RecalibrateStart(RecalDomain, cv)
          \/ RecalibrateCommandDone(cv)
          \/ RecalibrateWaitOver(cv)
          \/ RecalibrateRaise(cv)

SpecRecal == InitRecal /\ [][NextRecal]_vars

(* SpecSchedule: the schedule arithmetic.  The sun and brightness rules are *)
(* disabled; the workday close time is after, before or at the open time;   *)
(* the local clock is behind, at or ahead of UTC.                           *)
ScheduleTimes ==
    {<<DEFAULT_TIME_UP_WORKDAY, DEFAULT_TIME_DOWN_WORKDAY>>,
     <<DEFAULT_TIME_DOWN_WORKDAY, DEFAULT_TIME_UP_WORKDAY>>,
     <<DEFAULT_TIME_UP_WORKDAY + 1, DEFAULT_TIME_UP_WORKDAY + 1>>}

ScheduleConfigs ==
    {[DefaultConfig EXCEPT !.auto_sun_enabled = FALSE,
                           !.auto_brightness_enabled = FALSE,
                           !.time_up_workday = times[1],
                           !.time_down_workday = times[2]] : times \in ScheduleTimes}

ScheduleDomain ==
    [resident |-> BOOLEAN, window |-> {FALSE}, workday |-> BOOLEAN,
     brightness |-> {None}, outdoor |-> {None},
     sun |-> {},
     position |-> {0, 100},
     minutes |-> {}]

InitSchedule == InitWith({COVER_A}, ScheduleConfigs, {-1, 0, 1})

NextSchedule ==
    \/ AdvanceTime
    \/ SensorEvent(ScheduleDomain)
    \/ \E cv \in Covers :
          \/ HandleInterval(cv)
          \/ CoverEvent(ScheduleDomain, cv)
          \/ Evaluate(cv)
          \/ PublishState(cv)

SpecSchedule == InitSchedule /\ [][NextSchedule]_vars

-----------------------------------------------------------------------------
(* SpecManager: set_manual_override and state_snapshot through the manager, *)
(* for the configured cover and for a cover without a controller, options   *)
(* updates that switch between the sun-driven and a clock-driven schedule,  *)
(* and the unload, with the timer, the resident sensor and the evaluations. *)
ManagerConfigs ==
    {DefaultConfig,
     [DefaultConfig EXCEPT !.auto_sun_enabled = FALSE,
                           !.auto_brightness_enabled = FALSE,
                           !.time_up_workday = DEFAULT_TIME_UP_WORKDAY,
                           !.time_down_workday = DEFAULT_TIME_DOWN_WORKDAY]}

ManagerDomain ==
    [resident |-> BOOLEAN, window |-> {FALSE}, workday |-> {TRUE},
     brightness |-> {None}, outdoor |-> {None},
     sun |-> {<<None, None>>},
     position |-> {0, 100},
     minutes |-> {None},
     full_open |-> {None},
     covers |-> {COVER_A, OTHER_COVER},
     configs |-> ManagerConfigs]

InitManager == InitWith({COVER_A}, {DefaultConfig}, {1})

NextManager ==
    \/ AdvanceTime
    \/ SensorEvent(ManagerDomain)
    \/ Manager_set_manual_override(ManagerDomain)
    \/ Manager_state_snapshot(ManagerDomain)
    \/ UpdateOptions(ManagerDomain)
    \/ Unload
    \/ \E cv \in Covers :
          \/ HandleInterval(cv)
          \/ CoverEvent(ManagerDomain, cv)
          \/ Evaluate(cv)

SpecManager == InitManager /\ [][NextManager]_vars

-----------------------------------------------------------------------------

(* SpecRouting: the four cover-keyed manager calls, for the configured      *)
(* cover and for a cover without a controller, before and after the unload, *)
(* with the recalibrate coroutine and the _set_position task they start.    *)
NextRouting ==
    \/ AdvanceTime
    \/ Manager_set_manual_override(ManagerDomain)
    \/ Manager_clear_manual_override(ManagerDomain)
    \/ Manager_activate_shading(ManagerDomain)
    \/ Manager_recalibrate_cover(ManagerDomain)
    \/ Unload
    \/ \E cv \in Covers :
          \/ RunSetPosition(cv)
          \/ RecalibrateCommandDone(cv)
          \/ RecalibrateWaitOver(cv)
          \/ RecalibrateRaise(cv)

SpecRouting == InitManager /\ [][NextRouting]_vars

-----------------------------------------------------------------------------

(* SpecAsync: as Spec, with the await of the service call in _set_position *)
(* either returning at once (Evaluate) or suspending the evaluation while   *)
(* other tasks and calls of the same controller run.                        *)
NextAsync ==
    \/ AdvanceTime
    \/ SensorEvent(MainDomain)
    \/ \E cv \in Covers :
          \/ HandleInterval(cv)
          \/ Evaluate(cv)
          \/ EvaluateDecide(cv)
          \/ EvaluateRecord(cv)
          \/ SetManualOverride(MainDomain, cv)
          \/ ClearManualOverride(cv)

SpecAsync == Init /\ [][NextAsync]_vars

-----------------------------------------------------------------------------

(* SpecCalibration: the recalibrate coroutine interleaved with the timer,   *)
(* the resident sensor, evaluations, clear_manual_override and options      *)
(* updates.                                                                 *)
NextCalibration ==
    \/ AdvanceTime
    \/ SensorEvent(RecalDomain)
    \/ UpdateOptions(ManagerDomain)
    \/ \E cv \in Covers :
          \/ HandleInterval(cv)
          \/ Evaluate(cv)
          \/ ClearManualOverride(cv)
          \/ RecalibrateStart(RecalDomain, cv)
          \/ RecalibrateCommandDone(cv)
          \/ RecalibrateWaitOver(cv)

SpecCalibration == InitRecal /\ [][NextCalibration]_vars

-----------------------------------------------------------------------------

(* SpecRecalFair: the recalibrate coroutine under fair scheduling: the      *)
(* clock goes on while a wait loop is polling, a blocking service call      *)
(* returns, and each sleep of a wait loop returns.  The cover reports any   *)
(* position or none at all.                                                 *)

\* the clock advances, also past MaxNow while a wait loop has its deadline ahead
TimePasses ==
    /\ \/ now < MaxNow
       \/ \E cv \in Covers : recal[cv].pc \in {"wait_open", "wait_back"} /\ now < recal[cv].end
    /\ now' = now + 1
    /\ sent' = <<>>
    /\ last' = Did("env", "")
    /\ UNCHANGED <<manager, hass, controllers, tasks, recal>>

NextRecalFair ==
    \/ TimePasses
    \/ \E cv \in Covers :
          \/ CoverEvent(RecalDomain, cv)
          \/ Evaluate(cv)
          \/ now < MaxNow /\ RecalibrateStart(RecalDomain, cv)
          \/ RecalibrateCommandDone(cv)
          \/ RecalibrateWaitOver(cv)

SpecRecalFair ==
    /\ InitRecal
    /\ [][NextRecalFair]_vars
    /\ WF_vars(TimePasses)
    /\ WF_vars(RecalibrateCommandDone(COVER_A))
    /\ WF_vars(RecalibrateWaitOver(COVER_A))

-----------------------------------------------------------------------------

(* SpecReset: as SpecManual, under each of the three reset modes of the     *)
(* manual override (none, time of day, timeout) with all block flags set.   *)
SpecReset ==
    /\ InitWith({COVER_A},
                {[DefaultConfig EXCEPT !.manual_override_reset_mode = mode] :
                    mode \in {MANUAL_OVERRIDE_RESET_NONE, MANUAL_OVERRIDE_RESET_TIME,
                              MANUAL_OVERRIDE_RESET_TIMEOUT}},
                {1})
    /\ [][NextManual]_vars

-----------------------------------------------------------------------------

(* SpecCold: the default configuration with cold protection enabled.  The   *)
(* outdoor temperature is unknown, at the cold threshold or above it; the   *)
(* sun is unknown, below the horizon or above it; windows open and close;   *)
(* the cover reports positions that differ from the commanded target, so    *)
(* that scoped overrides are detected.                                      *)
NextCold ==
    LET D == [resident |-> {FALSE}, window |-> BOOLEAN, workday |-> {TRUE},
              brightness |-> {None}, outdoor |-> {None, 0, 1},
              sun |-> {<<None, None>>, <<-3, 1>>, <<2, 1>>},
              position |-> {0, 100}]
    IN  \/ AdvanceTime
        \/ SensorEvent(D)
        \/ SunChange(D)
        \/ \E cv \in Covers :
              \/ HandleInterval(cv)
              \/ CoverEvent(D, cv)
              \/ Evaluate(cv)

SpecCold ==
    /\ InitWith({COVER_A}, {[DefaultConfig EXCEPT !.auto_cold_protection_enabled = TRUE]}, {1})
    /\ [][NextCold]_vars

-----------------------------------------------------------------------------

(* SpecTicks: a clock-driven schedule (sun rule disabled, open and close    *)
(* time configured, brightness rule enabled) under recurring one-minute     *)
(* ticks: every minute the timer creates an evaluation, and every           *)
(* evaluation created runs.  The brightness is dark or bright and the cover *)
(* is moved by hand.  The clock has no end: at the end of the second day    *)
(* every timestamp is set back by one day, a timestamp that lies further    *)
(* back than the start of the first day becoming that start (timestamps are *)
(* only ever compared with the current time).                               *)

\* one minute passes and _handle_interval runs on every controller
MinuteTick ==
    LET wrap == now + 1 >= 2 * DayLen
        shift(x) == IF x = None \/ ~wrap THEN x
                    ELSE IF x - DayLen < 0 THEN 0 ELSE x - DayLen
    IN  /\ \A cv \in Covers : "interval" \in controllers[cv].unsubs
                              /\ tasks[cv].eval < MaxPending
        /\ now' = IF wrap THEN now + 1 - DayLen ELSE now + 1
        /\ controllers' = [cv \in Covers |->
                              [controllers[cv] EXCEPT !.next_open = shift(@),
                                                      !.next_close = shift(@),
                                                      !.manual_until = shift(@)]]
        /\ tasks' = AddEvalTask(Covers)
        /\ sent' = <<>>
        /\ last' = Did("interval", "")
        /\ UNCHANGED <<manager, hass, recal>>

NextTicks ==
    LET D == [resident |-> {FALSE}, window |-> {FALSE}, workday |-> {TRUE},
              brightness |-> {1, 5}, outdoor |-> {None},
              position |-> {0, 100}]
    IN  \/ MinuteTick
        \/ SensorEvent(D)
        \/ \E cv \in Covers :
              \/ CoverEvent(D, cv)
              \/ Evaluate(cv)

SpecTicks ==
    /\ InitWith({COVER_A},
                {[DefaultConfig EXCEPT !.auto_sun_enabled = FALSE,
                                       !.time_up_workday = DEFAULT_TIME_UP_WORKDAY,
                                       !.time_down_workday = DEFAULT_TIME_DOWN_WORKDAY]},
                {1})
    /\ [][NextTicks]_vars
    /\ SF_vars(MinuteTick)
    \* the event loop runs a pending evaluation task: the steps of NextTicks
    \* that take a task off the queue are exactly the Evaluate steps
    /\ WF_tasks(/\ tasks[COVER_A].eval > 0
                /\ tasks' = [tasks EXCEPT ![COVER_A].eval = @ - 1])

-----------------------------------------------------------------------------
(* SpecShadingEnd: shading begins and ends.  The sun is either inside the   *)
(* shading window (and high enough to open) or low enough to close; the     *)
(* brightness starts shading (5), ends it and allows the open (3), or       *)
(* allows the close (1).  Auto-down or auto-up may be switched off.  The    *)
(* evaluations are those that the sensor events trigger.                    *)
NextShadingEnd ==
    LET D == [resident |-> BOOLEAN, window |-> {FALSE}, workday |-> {TRUE},
              brightness |-> {1, 3, 5}, outdoor |-> {None},
              sun |-> {<<2, 1>>, <<-3, 1>>},
              minutes |-> {1}]
    IN  \/ AdvanceTime
        \/ SensorEvent(D)
        \/ SunChange(D)
        \/ \E cv \in Covers :
              \/ Evaluate(cv)
              \/ ActivateShading(D, cv)
              \/ RunSetPosition(cv)

SpecShadingEnd ==
    /\ InitWith({COVER_A},
                {DefaultConfig,
                 [DefaultConfig EXCEPT !.auto_down_enabled = FALSE],
                 [DefaultConfig EXCEPT !.auto_up_enabled = FALSE]},
                {1})
    /\ [][NextShadingEnd]_vars

-----------------------------------------------------------------------------

(* SpecEngines: a coordinator with two covers.  The coordinator's calls are  *)
(* addressed to the first; each engine has its own evaluation tasks, which   *)
(* its cover's state events trigger (the covers report the open position).   *)
(* The sun automation is off, so that the schedule alone opens the covers.   *)
NextEngines ==
    LET D == [minutes |-> {None}, full_open |-> {None}, covers |-> {COVER_A},
              position |-> {100}]
    IN  \/ Manager_set_manual_override(D)
        \/ Manager_clear_manual_override(D)
        \/ Manager_activate_shading(D)
        \/ Manager_recalibrate_cover(D)
        \/ \E cv \in Covers :
              \/ CoverEvent(D, cv)
              \/ Evaluate(cv)
              \/ RunSetPosition(cv)
              \/ RecalibrateCommandDone(cv)
              \/ RecalibrateWaitOver(cv)

SpecEngines ==
    /\ InitWith({COVER_A, OTHER_COVER},
                {[DefaultConfig EXCEPT !.auto_sun_enabled = FALSE]}, {1})
    /\ [][NextEngines]_vars

-----------------------------------------------------------------------------

(* Properties *)

\* the controller as an evaluation finds it once the override expiry has run
AtStart(cv) == _expire_manual_override(controllers[cv], now)

ScopeAll(c) == c.manual_active /\ c.manual_scope_all

Brightness(c) == IF c.config.brightness_sensor THEN hass.brightness ELSE None

TupleOf(c) == <<c.manual_until, c.manual_active, c.manual_scope_all, c.reason>>

Call(position, reason) == [position |-> position, reason |-> reason]

\* C1 as stated: of two runs of _evaluate in a row with nothing changing in
\* between (same sensor states, same measured position, same time), the second
\* issues no set-position command.
C1_SecondEvaluationSilent ==
    \A cv \in Covers :
        LET first == _evaluate(Frame(controllers[cv]), hass, now)
            second == _evaluate(Frame(Fields(first)), hass, now)
        IN  second.sent = <<>>

\* The conditions under which each rule of the cascade stops the evaluation, in
\* the order of section 4.1: (a) resident, (b) ventilation, (c) cold protection,
\* (d) shading or end of shading, not blocked, (e) sun close, not blocked,
\* (f) auto-up, (g) auto-down.
RuleFires(c, i) ==
    LET el == hass.sun_elevation
        b == Brightness(c)
        on(key) == _auto_enabled(c, hass, key)
        allowed == _shading_conditions(c, hass, hass.sun_azimuth, el, b)
        active == c.reason \in {"shading", "manual_shading"}
    IN  CASE i = 1 -> _is_resident_sleeping(c, hass)
          [] i = 2 -> on("auto_ventilate_enabled") /\ _is_window_open(c, hass)
          [] i = 3 -> on("auto_cold_protection_enabled") /\ _cold_protection_needed(c, hass, el)
          [] i = 4 -> /\ on("auto_shading_enabled") /\ ~_manual_blocks_action(c, "shading")
                      /\ \/ allowed
                         \/ /\ active
                            /\ \/ /\ on("auto_down_enabled") /\ _sun_allows_close(c, hass, el)
                                  /\ _brightness_allows_close(c, hass, b)
                                  /\ ~_manual_blocks_action(c, "close")
                               \/ /\ on("auto_up_enabled") /\ _sun_allows_open(c, hass, el)
                                  /\ _brightness_allows_open(c, hass, b)
                                  /\ ~_manual_blocks_action(c, "open")
          [] i = 5 -> /\ on("auto_sun_enabled") /\ _sun_allows_close(c, hass, el)
                      /\ _brightness_allows_close(c, hass, b)
                      /\ ~_manual_blocks_action(c, "close")
          [] i = 6 -> /\ on("auto_up_enabled")
                      /\ \/ _event_due(c.next_open, now)
                         \/ _within_open_close_window(c, hass, now)
                         \/ on("auto_sun_enabled") /\ _sun_allows_open(c, hass, el)
          [] i = 7 -> on("auto_down_enabled") /\ _event_due(c.next_close, now)

RuleOf(reason) ==
    CASE reason = "resident_asleep" -> 1
      [] reason = "ventilation" -> 2
      [] reason = "cold_protection" -> 3
      [] reason \in {"shading", "shading_end_close", "shading_end_open"} -> 4
      [] reason = "sun_close" -> 5
      [] reason = "scheduled_open" -> 6
      [] reason = "scheduled_close" -> 7
      [] OTHER -> 0

\* C2: in an evaluation without a scope-all override, a command is only ever
\* that of the first rule in priority order whose condition holds: no rule acts
\* when an earlier one fires.  With the resident sensor on the only command is
\* close/resident_asleep and the reason ends as resident_asleep; with ventilation
\* due (and the resident not asleep) the only command is the ventilate position.
C2_FirstMatchWins ==
    [][\A cv \in Covers :
        (last'.op = "evaluate" /\ last'.cover = cv /\ ~ScopeAll(AtStart(cv)))
        => LET c == AtStart(cv)
           IN  /\ \A k \in 1..Len(sent') : \A i \in 1..7 :
                     RuleFires(c, i) => RuleOf(sent'[k].reason) <= i
               /\ \A k \in 1..Len(sent') : RuleOf(sent'[k].reason) \in 1..7
               /\ _is_resident_sleeping(c, hass)
                    => /\ \A k \in 1..Len(sent') :
                            sent'[k] = Call(c.config.close_position, "resident_asleep")
                       /\ controllers'[cv].reason = "resident_asleep"
               /\ (RuleFires(c, 2) /\ ~RuleFires(c, 1))
                    => \A k \in 1..Len(sent') :
                            sent'[k] = Call(c.config.ventilate_position, "ventilation")]_vars

\* C2's case: ventilation and scheduled-open both due, ventilation commanded
C2_Witness ==
    /\ last.op = "evaluate"
    /\ sent = <<Call(DEFAULT_VENTILATE_POSITION, "ventilation")>>
    /\ hass.window /\ ~hass.resident
    /\ _within_open_close_window(controllers[COVER_A], hass, now)
    /\ _sun_allows_open(controllers[COVER_A], hass, hass.sun_elevation)
    /\ ~controllers[COVER_A].manual_active

\* the configuration as it is, with one automation flag flipped, or with all off
FlagVariants(config) ==
    {config}
    \cup {[config EXCEPT ![k] = ~config[k]] : k \in AutoKeys}
    \cup {[k \in DOMAIN config |-> IF k \in AutoKeys THEN FALSE ELSE config[k]]}

\* C9: one run of _evaluate, from any reachable state and under any of the flag
\* settings, issues at most one set-position command, and the target and reason
\* it leaves are those of that command (or the ones it found, the reason
\* possibly cleared by the override expiry, when it issues none).
C9_AtMostOneCommand ==
    \A cv \in Covers : \A config \in FlagVariants(controllers[cv].config) :
        LET c == [controllers[cv] EXCEPT !.config = config]
            r == _evaluate(Frame(c), hass, now)
        IN  /\ Len(r.sent) <= 1
            /\ Len(r.sent) = 1 =>
                 /\ r.reason = r.sent[1].reason
                 /\ r.target = r.sent[1].position
            /\ Len(r.sent) = 0 =>
                 /\ r.reason = _expire_manual_override(c, now).reason
                 /\ r.target = c.target

\* C9's case: an evaluation that issued its one command with several rules due
C9_Witness ==
    /\ last.op = "evaluate"
    /\ Len(sent) = 1
    /\ hass.resident /\ hass.window
    /\ _shading_conditions(controllers[COVER_A], hass, hass.sun_azimuth,
                           hass.sun_elevation, hass.brightness)

RequestedPositions == {0, 3, 4, 50, 100}

RuleReasons ==
    {"resident_asleep", "ventilation", "scheduled_open"}

\* C10: _set_position(position, reason) issues nothing and changes nothing exactly
\* when the measured position is known and within tolerance of the requested one
\* and the reason is already the requested one; otherwise it issues one command
\* and sets target and reason to the requested ones.
C10_SetPositionGuard ==
    \A cv \in Covers : \A position \in RequestedPositions, reason \in RuleReasons :
        LET c == Frame(controllers[cv])
            r == _set_position(c, hass, now, position, reason)
            held == /\ hass.position[cv] # None
                    /\ Abs(hass.position[cv] - position) <= c.config.position_tolerance
                    /\ c.reason = reason
        IN  /\ held => r = c
            /\ ~held => /\ r.sent = <<Call(position, reason)>>
                        /\ r.target = position
                        /\ r.reason = reason
                        /\ TupleOf(r) = <<c.manual_until, c.manual_active,
                                          c.manual_scope_all, reason>>

\* C10's case: an evaluation whose _set_position call was held back by the guard
C10_Witness ==
    /\ last.op = "evaluate"
    /\ sent = <<>>
    /\ hass.resident
    /\ ~ScopeAll(controllers[COVER_A])
    /\ controllers[COVER_A].reason = "resident_asleep"
    /\ hass.position[COVER_A] = DEFAULT_CLOSE_POSITION

-----------------------------------------------------------------------------
(* Override expiry and the shading hysteresis, under SpecShading *)

\* what the expiry leaves of a controller whose manual_until has passed
Cleared(c) ==
    [c EXCEPT !.manual_until = None, !.manual_active = FALSE, !.manual_scope_all = FALSE,
              !.reason = IF c.reason \in {"manual_override", "manual_shading"}
                         THEN NoReason ELSE c.reason]

\* C3: an evaluation that starts with manual_until set and now >= manual_until
\* clears manual_until, manual_active and manual_scope_all, clears a reason of
\* manual_override or manual_shading, and goes on to the rule cascade in the same
\* call: its commands and its final state are those of an evaluation started
\* with no override at all.
C3_ExpiryThenCascade ==
    [][\A cv \in Covers :
        (last'.op = "evaluate" /\ last'.cover = cv /\ Expired(controllers[cv], now))
        => LET resumed == _evaluate(Frame(Cleared(controllers[cv])), hass, now)
           IN  /\ controllers'[cv].manual_until = None
               /\ ~controllers'[cv].manual_active
               /\ ~controllers'[cv].manual_scope_all
               /\ controllers'[cv].reason \notin {"manual_override", "manual_shading"}
               /\ controllers'[cv] = Fields(resumed)
               /\ sent' = resumed.sent]_vars

\* C3's case: the evaluation that found the override expired has issued the
\* shading command of the cascade
C3_Witness ==
    /\ last.op = "evaluate" /\ last.expired
    /\ sent = <<Call(DEFAULT_SHADING_POSITION, "shading")>>
    /\ controllers[COVER_A].manual_until = None
    /\ ~controllers[COVER_A].manual_active

SunInShadingWindow(c) ==
    /\ hass.sun_azimuth # None /\ hass.sun_elevation # None
    /\ c.config.shading_azimuth_start <= hass.sun_azimuth
    /\ hass.sun_azimuth <= c.config.shading_azimuth_end
    /\ c.config.shading_elevation_min <= hass.sun_elevation
    /\ hass.sun_elevation <= c.config.shading_elevation_max

\* C4 as stated: in an evaluation that reaches the shading rule with reason =
\* shading, the sun inside the shading window and the brightness strictly above
\* the end threshold, shading goes on: the reason stays shading and no
\* shading_end_* command is issued.
C4_ShadingHysteresis ==
    [][\A cv \in Covers :
        LET c == AtStart(cv)
        IN  (/\ last'.op = "evaluate" /\ last'.cover = cv
             /\ ~ScopeAll(c)
             /\ c.reason = "shading"
             /\ ~RuleFires(c, 1) /\ ~RuleFires(c, 2) /\ ~RuleFires(c, 3)
             /\ _auto_enabled(c, hass, "auto_shading_enabled")
             /\ ~_manual_blocks_action(c, "shading")
             /\ SunInShadingWindow(c)
             /\ Brightness(c) # None
             /\ Brightness(c) > c.config.shading_brightness_end)
            => /\ controllers'[cv].reason = "shading"
               /\ \A k \in 1..Len(sent') :
                     sent'[k].reason \notin {"shading_end_close", "shading_end_open"}]_vars

-----------------------------------------------------------------------------
(* Manual detection, under SpecManual *)

BlockFlags ==
    {"manual_override_block_open", "manual_override_block_close",
     "manual_override_block_ventilate", "manual_override_block_shading"}

\* the block flags a command of the given reason is subject to
FlagsOf(reason) ==
    CASE reason = "scheduled_open" -> {"manual_override_block_open"}
      [] reason \in {"scheduled_close", "sun_close"} -> {"manual_override_block_close"}
      [] reason = "ventilation" -> {"manual_override_block_ventilate"}
      [] reason = "shading" -> {"manual_override_block_shading"}
      [] reason = "shading_end_open" ->
            {"manual_override_block_shading", "manual_override_block_open"}
      [] reason = "shading_end_close" ->
            {"manual_override_block_shading", "manual_override_block_close"}
      [] OTHER -> {}

\* a cover-state-change step for cv that reports a position more than tolerance
\* away from the last commanded target, with no override active and at least one
\* block flag enabled
Detection(cv) ==
    LET c == AtStart(cv)
    IN  /\ last'.op = "cover_event" /\ last'.cover = cv
        /\ c.target # None /\ hass'.position[cv] # None
        /\ Abs(hass'.position[cv] - c.target) > c.config.position_tolerance
        /\ ~c.manual_active
        /\ \E flag \in BlockFlags : c.config[flag]

-----------------------------------------------------------------------------
(* Recalibration, under SpecRecal *)

\* C6: recalibrate saves the tuple (manual_until, manual_active, manual_scope_all,
\* reason) it finds when called, keeps the saved tuple while it runs, and on
\* every way out (both waits over, by success or timeout; a raise or a
\* cancellation at an await) leaves the controller with exactly the saved tuple.
C6_RecalibrationRestores ==
    [][\A cv \in Covers :
        /\ (recal[cv].pc = "idle" /\ recal'[cv].pc # "idle")
            => recal'[cv].manual_state = TupleOf(controllers[cv])
        /\ (recal[cv].pc # "idle" /\ recal'[cv].pc # "idle")
            => recal'[cv].manual_state = recal[cv].manual_state
        /\ (recal[cv].pc # "idle" /\ recal'[cv].pc = "idle")
            => /\ TupleOf(controllers'[cv]) = recal[cv].manual_state
               /\ last'.op \in {"recalibrate_done", "recalibrate_raised"}]_vars

\* C6's case: recalibrate, called with no override and reason resident_asleep,
\* was left by an exception and the forced override is gone again
C6_Witness ==
    /\ last.op = "recalibrate_raised"
    /\ recal[COVER_A].pc = "idle"
    /\ TupleOf(controllers[COVER_A]) = <<None, FALSE, FALSE, "resident_asleep">>

-----------------------------------------------------------------------------
(* Schedule arithmetic, under SpecSchedule *)

\* the local time of day at t
TimeOfDayAt(t) == as_local(hass, t) % DayLen

\* tod lies in the daily window from open to close; a close at or before the open
\* is the close of the next day
InWindow(tod, open, close) ==
    IF close <= open THEN tod >= open \/ tod < close
    ELSE open <= tod /\ tod < close

\* C7: for every time of day and every current time, _next_time_for_point gives
\* the next occurrence of that local time of day after now (today's if still to
\* come, else tomorrow's), never a time before now; and for every open and close
\* time the window test is true exactly in the daily window from the open time
\* to the close time, the window spanning midnight when the close time is
\* earlier in the clock than the open time.  _within_open_close_window is that
\* test on the configured times of the day's kind (workday or not).
C7_ScheduleWraparound ==
    /\ \A tod \in TimesOfDay :
          LET r == _next_time_for_point(hass, tod, now)
          IN  /\ r > now /\ r <= now + DayLen
              /\ TimeOfDayAt(r) = tod
    /\ \A open \in TimesOfDay, close \in TimesOfDay :
          _within_window(hass, open, close, now) <=> InWindow(TimeOfDayAt(now), open, close)
    /\ \A cv \in Covers :
          LET c == controllers[cv]
              workday == _is_workday(c, hass)
          IN  _within_open_close_window(c, hass, now)
                <=> InWindow(TimeOfDayAt(now), _time_setting(c, workday, TRUE),
                             _time_setting(c, workday, FALSE))

\* C7's case: a window spanning midnight, the clock past midnight and before the
\* close time, the schedule refreshed on the day after the start
C7_Witness ==
    /\ last.op = "publish_state"
    /\ hass.workday
    /\ controllers[COVER_A].config.time_down_workday
            < controllers[COVER_A].config.time_up_workday
    /\ TimeOfDayAt(now) < controllers[COVER_A].config.time_down_workday
    /\ _within_open_close_window(controllers[COVER_A], hass, now)
    /\ controllers[COVER_A].next_open > now
    /\ as_local(hass, now) >= DayLen

\* C8: with auto-up enabled, the sun and brightness rules disabled, no override
\* active and none of the rules resident, ventilation, cold protection, shading
\* firing, an evaluation inside the open/close window of the day with the cover
\* measured at the close position issues exactly one command, to the open
\* position, and sets target to it and reason to scheduled_open.
C8_ScheduledOpen ==
    [][\A cv \in Covers :
        LET c == AtStart(cv)
            workday == _is_workday(c, hass)
        IN  (/\ last'.op = "evaluate" /\ last'.cover = cv
             /\ _auto_enabled(c, hass, "auto_up_enabled")
             /\ ~_auto_enabled(c, hass, "auto_sun_enabled")
             /\ ~_auto_enabled(c, hass, "auto_brightness_enabled")
             /\ ~c.manual_active
             /\ \A i \in 1..4 : ~RuleFires(c, i)
             /\ InWindow(TimeOfDayAt(now), _time_setting(c, workday, TRUE),
                         _time_setting(c, workday, FALSE))
             /\ hass.position[cv] = c.config.close_position)
            => /\ sent' = <<Call(c.config.open_position, "scheduled_open")>>
               /\ controllers'[cv].target = c.config.open_position
               /\ controllers'[cv].reason = "scheduled_open"]_vars

\* C8's case: a workday, the open time passed by one unit, the cover at the
\* close position, and the evaluation has commanded the open position
C8_Witness ==
    /\ last.op = "evaluate"
    /\ sent = <<Call(DEFAULT_OPEN_POSITION, "scheduled_open")>>
    /\ hass.workday /\ ~hass.resident
    /\ hass.position[COVER_A] = DEFAULT_CLOSE_POSITION
    /\ TimeOfDayAt(now) = controllers[COVER_A].config.time_up_workday + 1
    /\ controllers[COVER_A].config.time_down_workday
            > controllers[COVER_A].config.time_up_workday + 1
    /\ controllers[COVER_A].target = DEFAULT_OPEN_POSITION
    /\ controllers[COVER_A].reason = "scheduled_open"

-----------------------------------------------------------------------------
(* The override services, update_config and state_snapshot *)

\* the override has not run out at time t
Running(c, t) == c.manual_until = None \/ t < c.manual_until

\* C11: while a scope-all override is active and has not run out, one run of
\* _evaluate issues no set-position command and leaves target, reason and the
\* override fields as they are, whatever the sensors say (resident asleep,
\* window open, outdoor temperature at the cold threshold) and whichever
\* automation flags are set (cold protection included).
C11_ScopeAllOverrideSilent ==
    \A cv \in Covers :
        LET c0 == controllers[cv]
        IN  ScopeAll(c0) /\ Running(c0, now) =>
              \A config \in FlagVariants(c0.config) : \A outdoor \in {None, 0} :
                  LET c == [c0 EXCEPT !.config = config]
                      r == _evaluate(Frame(c), [hass EXCEPT !.outdoor = outdoor], now)
                  IN  /\ r.sent = <<>>
                      /\ r.target = c.target
                      /\ r.reason = c.reason
                      /\ TupleOf(r) = TupleOf(c)

\* C11's case: an evaluation has run under a scope-all override with the
\* resident asleep, a window open and the cover away from the close position
C11_Witness ==
    /\ last.op = "evaluate"
    /\ ~last.expired
    /\ ScopeAll(controllers[COVER_A]) /\ Running(controllers[COVER_A], now)
    /\ hass.resident /\ hass.window
    /\ hass.position[COVER_A] = DEFAULT_OPEN_POSITION
    /\ sent = <<>>

\* C12: set_manual_override(minutes), from any reachable state, for minutes
\* null, 0, 1 or 2 and a configured duration of 1 or none, leaves manual_active and manual_scope_all true, the
\* reason manual_override and manual_until = now + minutes, where the
\* configured duration (the default when none is configured) stands in for
\* minutes that are null or 0; it issues no set-position command and leaves
\* the target alone.
C12_SetManualOverride ==
    \A cv \in Covers : \A minutes \in {None, 0, 1, 2} : \A configured \in {None, 1} :
        LET c == [controllers[cv] EXCEPT !.config.manual_override_minutes = configured]
            r == set_manual_override(Frame(c), hass, now, minutes)
            duration == IF minutes # None /\ minutes # 0 THEN minutes
                        ELSE IF configured # None THEN configured
                        ELSE DefaultOverrideMinutes
        IN  /\ TupleOf(r) = <<now + duration, TRUE, TRUE, "manual_override">>
            /\ r.sent = <<>>
            /\ r.target = c.target

\* C12's case: set_manual_override has been called, without minutes, on a
\* controller that had commanded a position before
C12_Witness ==
    /\ last.op = "set_manual_override"
    /\ TupleOf(controllers[COVER_A])
         = <<now + DefaultOverrideMinutes, TRUE, TRUE, "manual_override">>
    /\ controllers[COVER_A].target # None
    /\ sent = <<>>

\* C13: clear_manual_override, from any reachable state, leaves manual_until
\* unset and manual_active and manual_scope_all false; the reason becomes none
\* if and only if it was manual_override or manual_shading (or none already)
\* and is otherwise kept; the target is kept and no command is issued; a
\* second call changes nothing any more.
C13_ClearManualOverride ==
    \A cv \in Covers :
        LET c == controllers[cv]
            r == clear_manual_override(Frame(c), hass, now)
        IN  /\ <<r.manual_until, r.manual_active, r.manual_scope_all>> = <<None, FALSE, FALSE>>
            /\ r.reason = IF c.reason \in {"manual_override", "manual_shading"}
                          THEN NoReason ELSE c.reason
            /\ r.target = c.target
            /\ r.sent = <<>>
            /\ clear_manual_override(r, hass, now) = r

\* C13's case: clear_manual_override has been called on a controller that had
\* commanded a position, and the reason is none
C13_Witness ==
    /\ last.op = "clear_manual_override"
    /\ TupleOf(controllers[COVER_A]) = <<None, FALSE, FALSE, NoReason>>
    /\ controllers[COVER_A].target # None
    /\ sent = <<>>

\* C14 as stated: activate_shading starts an override window: right after it
\* an override is active (manual_active true, manual_until set); its
\* _set_position task commands the shading position with reason
\* manual_shading whatever the cover's position and reason are; and an
\* evaluation that runs before the window has run out commands no position
\* other than the shading position.
C14_ActivateShadingWindow ==
    [][\A cv \in Covers :
          /\ last'.op = "activate_shading" /\ last'.cover = cv =>
                controllers'[cv].manual_active /\ controllers'[cv].manual_until # None
          /\ last'.op = "set_position" /\ last'.cover = cv =>
                sent' = <<Call(_position_value(controllers[cv], "shading_position"),
                               "manual_shading")>>
          /\ /\ last'.op = "evaluate" /\ last'.cover = cv
             /\ controllers[cv].reason = "manual_shading"
             /\ controllers[cv].manual_until # None /\ now < controllers[cv].manual_until
             =>
                \A k \in 1..Len(sent') :
                    sent'[k].position = _position_value(controllers[cv], "shading_position")
      ]_vars

\* C15: update_config(new_config) leaves every registered controller with the
\* new configuration, with no manual override (manual_until unset,
\* manual_active and manual_scope_all false), with next_open and next_close
\* as the new configuration gives them at that time, and with an evaluation
\* task created; when that task runs next, it runs the rule cascade (it is
\* not cut short by an override) on the new configuration.
C15_UpdateConfig ==
    [][\A cv \in manager.controllers :
          /\ last'.op = "update_config" =>
                LET c == controllers'[cv]
                IN  /\ c.config = last'.config
                    /\ <<c.manual_until, c.manual_active, c.manual_scope_all>>
                          = <<None, FALSE, FALSE>>
                    /\ c.next_open = NewController(cv, last'.config, hass, now).next_open
                    /\ c.next_close = NewController(cv, last'.config, hass, now).next_close
                    /\ tasks'[cv].eval = tasks[cv].eval + 1
                    /\ sent' = <<>>
          /\ last.op = "update_config" /\ last'.op = "evaluate" /\ last'.cover = cv =>
                LET c == controllers[cv]
                    e == [up_due |-> _event_due(c.next_open, now),
                          down_due |-> _event_due(c.next_close, now),
                          brightness |-> Brightness(c),
                          sun_elevation |-> hass.sun_elevation,
                          sun_azimuth |-> hass.sun_azimuth]
                    r == _rule_resident(Frame(c), hass, now, e)
                IN  /\ c.config = last.config
                    /\ controllers'[cv] = Fields(r)
                    /\ sent' = r.sent
      ]_vars

\* C15's case: update_config has switched a controller under a scope-all
\* override from the sun-driven to the clock-driven schedule
C15_Witness ==
    /\ last.op = "update_config"
    /\ last.config # DefaultConfig
    /\ controllers[COVER_A].config = last.config
    /\ controllers[COVER_A].reason = "manual_override"
    /\ controllers[COVER_A].next_open # None
    /\ tasks[COVER_A].eval > 0

\* C16: state_snapshot, on any controller in any reachable state, changes no
\* field of the controller other than next_open and next_close (manual_until,
\* manual_active, manual_scope_all, target and reason stay), issues no
\* set-position command and sends no dispatcher signal, and the reason it
\* reports is idle when the stored reason is none and the stored reason
\* otherwise; the manager's call for a registered cover returns that tuple
\* and leaves the tasks, the recalibration and the host state alone.
C16_StateSnapshotFrame ==
    [][/\ \A cv \in Covers :
             LET c == controllers[cv]
                 s == state_snapshot(Frame(c), hass, now)
             IN  /\ Fields(s.c) = [c EXCEPT !.next_open = s.c.next_open,
                                            !.next_close = s.c.next_close]
                 /\ s.c.sent = <<>>
                 /\ s.dispatched = <<>>
                 /\ s.returned[1] = c.target
                 /\ s.returned[2] = IF c.reason = NoReason THEN IDLE_REASON ELSE c.reason
       /\ last'.op = "state_snapshot" /\ Registered(last'.cover) =>
             LET cv == last'.cover
             IN  /\ controllers' =
                        [controllers EXCEPT ![cv].next_open = controllers'[cv].next_open,
                                            ![cv].next_close = controllers'[cv].next_close]
                 /\ last'.returned
                        = state_snapshot(Frame(controllers[cv]), hass, now).returned
                 /\ sent' = <<>>
                 /\ UNCHANGED <<hass, manager, tasks, recal>>
      ]_vars

\* C16's case: state_snapshot has been called on a controller whose stored
\* reason is none and has reported idle and a scheduled open time
C16_Witness ==
    /\ last.op = "state_snapshot"
    /\ last.cover = COVER_A /\ Registered(COVER_A)
    /\ controllers[COVER_A].reason = NoReason
    /\ last.returned[2] = IDLE_REASON
    /\ last.returned[5] # None
    /\ now > 0

\* C17: the manager's set_manual_override, activate_shading and
\* clear_manual_override return true if and only if self.controllers holds a
\* controller for the cover, and recalibrate_cover returns false at once if
\* and only if it holds none (with one it runs recalibrate and returns true
\* when that has finished); a call that returns false changes no controller,
\* creates no task and issues no command.
C17_ManagerRouting ==
    [][/\ last'.op \in {"set_manual_override", "activate_shading",
                        "clear_manual_override", "recalibrate_cover"} =>
             /\ last'.returned = (last'.cover \in manager.controllers)
             /\ ~last'.returned =>
                   /\ UNCHANGED <<controllers, tasks, recal, manager, hass>>
                   /\ sent' = <<>>
       /\ last'.op = "recalibrate" => last'.cover \in manager.controllers
      ]_vars

\* C17's case: a call for a cover without a controller has returned false
\* while the configured cover's controller is registered and under an override
C17_Witness ==
    /\ last.op = "clear_manual_override"
    /\ last.cover = OTHER_COVER
    /\ ~last.returned
    /\ COVER_A \in manager.controllers
    /\ controllers[COVER_A].manual_active
    /\ sent = <<>>

\* C18 as stated: the manager's state_snapshot(cover) returns none (here the
\* empty tuple) when self.controllers holds no controller for the cover, and
\* otherwise the controller's snapshot: target, reason (idle for none),
\* manual_until, manual_active, next_open, next_close, measured position,
\* shading enabled, shading active, ventilation active, in that order.
C18_ManagerSnapshot ==
    last.op = "state_snapshot" =>
        IF last.cover \in manager.controllers
        THEN LET c == controllers[last.cover]
                 current_position == _current_position(c, hass)
                 shading_enabled == _auto_enabled(c, hass, "auto_shading_enabled")
             IN  last.returned =
                    <<c.target,
                      IF c.reason = NoReason THEN IDLE_REASON ELSE c.reason,
                      c.manual_until, c.manual_active, c.next_open, c.next_close,
                      current_position, shading_enabled,
                      _shading_is_active(c, current_position, shading_enabled),
                      _ventilation_is_active(c, current_position)>>
        ELSE last.returned = <<>>

\* C19 as stated: once async_unload has cancelled a controller's
\* subscriptions, no timer or state-change callback of it fires (no
\* evaluation task is created), no evaluation of it runs, and no position
\* command is issued on its behalf.
C19_NoEvaluationAfterUnload ==
    [][\A cv \in Covers :
          controllers[cv].unsubs = {} =>
             /\ tasks'[cv].eval <= tasks[cv].eval
             /\ ~(last'.op \in {"interval", "cover_event"} /\ last'.cover = cv)
             /\ ~(last'.op = "evaluate" /\ last'.cover = cv)
             /\ last'.cover = cv => sent' = <<>>
      ]_vars

\* C20 as stated: between the moment a running _evaluate has decided on a
\* command (it is suspended at the await in _set_position) and the moment it
\* records target and reason, no other _evaluate of the same controller runs
\* and no set_manual_override or clear_manual_override is applied to it.
C20_EvaluationsDoNotOverlap ==
    [][\A cv \in Covers :
          tasks[cv].awaiting # <<>> =>
             ~(/\ last'.cover = cv
               /\ last'.op \in {"evaluate", "evaluate_decide",
                                 "set_manual_override", "clear_manual_override"})
      ]_vars

-----------------------------------------------------------------------------
(* Recalibration and the automation, under SpecCalibration *)

\* C21 as stated: from the start of recalibrate until its finally block has
\* run, no evaluation of the cover issues a position command, whatever
\* clear_manual_override and update_config calls come in between.
C21_CalibrationSuppressesAutomation ==
    [][\A cv \in Covers :
          (recal[cv].pc # "idle" /\ last'.op = "evaluate" /\ last'.cover = cv)
          => sent' = <<>>]_vars

\* C22: a started recalibrate completes, whatever the cover reports: a wait
\* loop is given the deadline now + 60 s when it starts and is over at any
\* time at or after its deadline, also with the measured position unknown or
\* never within tolerance; when the position before the calibration was known,
\* the first wait is followed by the command back to it (recalibrate finishes
\* right after the first wait only when it was unknown); and from every state
\* in which recalibrate is running a state is reached in which it has finished.
C22_RecalibrationTerminates ==
    /\ \A cv \in {COVER_A} : (recal[cv].pc # "idle") ~> (recal[cv].pc = "idle")
    /\ [][\A cv \in Covers :
             LET r == recal[cv]
                 waits == {"wait_open", "wait_back"}
             IN  /\ (r.pc \notin waits /\ recal'[cv].pc \in waits)
                      => recal'[cv].end = now + WaitTimeout
                 /\ (r.pc \in waits /\ now >= r.end)
                      => _wait_over(Frame(controllers[cv]), hass, now,
                                    IF r.pc = "wait_open" THEN r.target_open
                                    ELSE r.current_position, r.end)
                 /\ (r.pc \in {"command_open", "wait_open"} /\ recal'[cv].pc # r.pc)
                      => IF r.current_position # None
                         THEN /\ recal'[cv].pc
                                   = IF r.pc = "command_open" /\ sent' = <<>>
                                     THEN "wait_open" ELSE "command_back"
                              /\ recal'[cv].pc = "command_back"
                                   => sent' = <<Call(r.current_position, NoReason)>>
                         ELSE recal'[cv].pc \in {"wait_open", "idle"}
      ]_vars

\* C22's case: recalibrate has finished although the cover never moved from
\* the close position: the first wait ran into its deadline and the return
\* step was taken
C22_Witness ==
    /\ last.op = "recalibrate_done"
    /\ recal[COVER_A].pc = "idle"
    /\ hass.position[COVER_A] = DEFAULT_CLOSE_POSITION
    /\ now >= WaitTimeout

-----------------------------------------------------------------------------
(* Missing sensor data *)

\* C23: with the sun rule enabled and the sun elevation unavailable (the
\* azimuth known or not), _sun_allows_open and _sun_allows_close are both
\* false, and an evaluation issues no command with reason sun_close,
\* scheduled_open, scheduled_close, shading, shading_end_close or
\* shading_end_open; nor would it under any other setting of the automation
\* flags that leaves the sun rule enabled.
C23_UnknownSunElevationSafe ==
    [][\A cv \in Covers :
          (last'.op = "evaluate" /\ last'.cover = cv /\ hass.sun_elevation = None)
          => \A config \in FlagVariants(controllers[cv].config) :
                LET c == [controllers[cv] EXCEPT !.config = config]
                    r == _evaluate(Frame(c), hass, now)
                IN  _auto_enabled(c, hass, "auto_sun_enabled") =>
                      /\ ~_sun_allows_open(c, hass, hass.sun_elevation)
                      /\ ~_sun_allows_close(c, hass, hass.sun_elevation)
                      /\ config = controllers[cv].config => sent' = r.sent
                      /\ \A k \in 1..Len(r.sent) :
                            r.sent[k].reason \notin
                                {"sun_close", "scheduled_open", "scheduled_close", "shading",
                                 "shading_end_close", "shading_end_open"}
      ]_vars

\* C23's case: an evaluation has run with the elevation unavailable while the
\* cover was shading away from every rule's position: it has issued nothing,
\* kept the reason and put the open check off by a minute
C23_Witness ==
    /\ last.op = "evaluate"
    /\ hass.sun_elevation = None
    /\ controllers[COVER_A].config.auto_sun_enabled
    /\ controllers[COVER_A].reason = "shading"
    /\ hass.position[COVER_A] = DEFAULT_OPEN_POSITION
    /\ sent = <<>>
    /\ controllers[COVER_A].next_open = now + 1

-----------------------------------------------------------------------------
(* The end of an override, under SpecReset *)

\* C24 as stated: in every reachable state, under every reset mode, an active
\* manual override has its manual_until set.
C24_OverrideTimeBoxed ==
    \A cv \in Covers : controllers[cv].manual_active => controllers[cv].manual_until # None

\* C24, amended: an active override has manual_until set unless it was
\* activated by manual detection under reset mode none: a step leaves
\* manual_active true with manual_until unset only if it is such a detection
\* or finds the controller already so, and never under the reset modes time
\* and timeout; set_manual_override always sets manual_until.  An evaluation
\* at or after manual_until ends the override (manual_until unset, both flags
\* false) without a clear_manual_override or update_config call.
C24_OverrideTimeBoxedUnlessResetNone ==
    [][\A cv \in Covers :
          LET c == controllers[cv]
              unboxed(x) == x.manual_active /\ x.manual_until = None
          IN  /\ unboxed(controllers'[cv]) =>
                    /\ c.config.manual_override_reset_mode = MANUAL_OVERRIDE_RESET_NONE
                    /\ \/ unboxed(c) /\ last'.op # "set_manual_override"
                       \/ /\ last'.op = "cover_event" /\ last'.cover = cv
                          /\ ~AtStart(cv).manual_active
                          /\ controllers'[cv].reason = "manual_override"
              /\ (last'.op = "set_manual_override" /\ last'.cover = cv) =>
                    controllers'[cv].manual_until # None
              /\ (last'.op = "evaluate" /\ last'.cover = cv /\ Expired(c, now)) =>
                    /\ controllers'[cv].manual_until = None
                    /\ ~controllers'[cv].manual_active
                    /\ ~controllers'[cv].manual_scope_all
      ]_vars

\* C24's case: an override detected under the reset mode time (no reset time
\* configured) has been ended by an evaluation at the default reset time of day
C24_Witness ==
    /\ last.op = "evaluate" /\ last.expired
    /\ controllers[COVER_A].config.manual_override_reset_mode = MANUAL_OVERRIDE_RESET_TIME
    /\ ~controllers[COVER_A].manual_active
    /\ controllers[COVER_A].manual_until = None
    /\ controllers[COVER_A].target # None
    /\ Abs(hass.position[COVER_A] - controllers[COVER_A].target) > DEFAULT_TOLERANCE

-----------------------------------------------------------------------------
(* The rule cascade under a scoped override and under cold protection,      *)
(* under SpecCold                                                           *)

\* C25 as stated: in an evaluation under a scoped (not scope-all) override,
\* a rule whose condition holds and whose action the override blocks does not
\* stop the cascade: with ventilation due and blocked the evaluation issues
\* the command that the cascade from the cold-protection rule on issues (and
\* leaves its target and reason), and with the open due and allowed but
\* blocked it issues the command of the auto-down rule.
C25_BlockedRuleFallsThrough ==
    [][\A cv \in Covers :
          LET c == AtStart(cv)
              e == [up_due |-> _event_due(c.next_open, now),
                    down_due |-> _event_due(c.next_close, now),
                    brightness |-> Brightness(c),
                    sun_elevation |-> hass.sun_elevation,
                    sun_azimuth |-> hass.sun_azimuth]
              scoped == /\ last'.op = "evaluate" /\ last'.cover = cv
                        /\ c.manual_active /\ ~c.manual_scope_all
              continues(r) == /\ sent' = r.sent
                              /\ controllers'[cv].target = r.target
                              /\ controllers'[cv].reason = r.reason
          IN  /\ (/\ scoped
                  /\ ~RuleFires(c, 1) /\ RuleFires(c, 2)
                  /\ _manual_blocks_action(c, "ventilation"))
                  => continues(_rule_cold_protection(Frame(c), hass, now, e))
              /\ (/\ scoped
                  /\ \A i \in 1..5 : ~RuleFires(c, i)
                  /\ RuleFires(c, 6)
                  /\ _brightness_allows_open(c, hass, e.brightness)
                  /\ _sun_allows_open(c, hass, e.sun_elevation)
                  /\ _manual_blocks_action(c, "open"))
                  => continues(_rule_auto_down(Frame(c), hass, now, e))
      ]_vars

-----------------------------------------------------------------------------
(* The schedule under recurring ticks, under SpecTicks *)

\* C26 as stated: with auto-down enabled and no override, once the scheduled
\* close time has been reached (next_close is due) and sun and brightness
\* allow the close, then under recurring one-minute ticks an evaluation issues
\* the close command with reason scheduled_close, or the cover is at the close
\* position, or sun or brightness stop allowing the close (or an override
\* comes up, or auto-down is switched off).
C26_ScheduledCloseExecuted ==
    \A cv \in {COVER_A} :
        (/\ _auto_enabled(controllers[cv], hass, "auto_down_enabled")
         /\ ~controllers[cv].manual_active
         /\ _event_due(controllers[cv].next_close, now)
         /\ _sun_allows_close(controllers[cv], hass, hass.sun_elevation)
         /\ _brightness_allows_close(controllers[cv], hass, Brightness(controllers[cv])))
        ~> (\/ /\ last.op = "evaluate" /\ last.cover = cv
               /\ \E k \in 1..Len(sent) : sent[k].reason = "scheduled_close"
            \/ _position_matches(controllers[cv],
                                 _position_value(controllers[cv], "close_position"),
                                 hass.position[cv])
            \/ ~_auto_enabled(controllers[cv], hass, "auto_down_enabled")
            \/ controllers[cv].manual_active
            \/ ~_sun_allows_close(controllers[cv], hass, hass.sun_elevation)
            \/ ~_brightness_allows_close(controllers[cv], hass, Brightness(controllers[cv])))

-----------------------------------------------------------------------------
(* Cold protection and missing data, under SpecCold *)

\* C27 as stated: an evaluation issues a command with reason cold_protection
\* only if auto-cold is enabled, the sun elevation is available and <= 0, the
\* cold threshold is available, and the outdoor temperature or the forecast
\* temperature is available and <= the threshold.
C27_ColdProtectionNeedsKnownSun ==
    [][\A cv \in Covers :
          (/\ last'.op = "evaluate" /\ last'.cover = cv
           /\ \E k \in 1..Len(sent') : sent'[k].reason = "cold_protection")
          => LET c == controllers[cv]
                 threshold == _cold_threshold(c)
                 forecast == _cold_forecast_temperature(c, hass)
             IN  /\ _auto_enabled(c, hass, "auto_cold_protection_enabled")
                 /\ hass.sun_elevation # None
                 /\ hass.sun_elevation <= 0
                 /\ threshold # None
                 /\ \/ hass.outdoor # None /\ hass.outdoor <= threshold
                    \/ forecast # None /\ forecast <= threshold
      ]_vars

-----------------------------------------------------------------------------
(* The end of shading, under SpecShadingEnd *)

\* C28 as stated: when an evaluation reaches the shading rule with shading
\* active (reason shading or manual_shading) and the shading conditions no
\* longer holding, it commands the close position with reason
\* shading_end_close if sun and brightness allow the close, otherwise the open
\* position with reason shading_end_open if sun and brightness allow the open,
\* and in neither case commands the shading position.
C28_ShadingEnd ==
    [][\A cv \in Covers :
          LET c == AtStart(cv)
              close_ok == /\ _sun_allows_close(c, hass, hass.sun_elevation)
                          /\ _brightness_allows_close(c, hass, Brightness(c))
              open_ok == /\ _sun_allows_open(c, hass, hass.sun_elevation)
                         /\ _brightness_allows_open(c, hass, Brightness(c))
          IN  (/\ last'.op = "evaluate" /\ last'.cover = cv
               /\ ~ScopeAll(c)
               /\ ~_is_resident_sleeping(c, hass)
               /\ ~(_auto_enabled(c, hass, "auto_ventilate_enabled") /\ _is_window_open(c, hass))
               /\ ~(/\ _auto_enabled(c, hass, "auto_cold_protection_enabled")
                    /\ _cold_protection_needed(c, hass, hass.sun_elevation))
               /\ _auto_enabled(c, hass, "auto_shading_enabled")
               /\ ~_manual_blocks_action(c, "shading")
               /\ c.reason \in {"shading", "manual_shading"}
               /\ ~_shading_conditions(c, hass, hass.sun_azimuth, hass.sun_elevation,
                                       Brightness(c)))
              => /\ close_ok
                    => sent' = <<Call(_position_value(c, "close_position"),
                                      "shading_end_close")>>
                 /\ ~close_ok /\ open_ok
                    => sent' = <<Call(_position_value(c, "open_position"),
                                      "shading_end_open")>>
                 /\ \A k \in 1..Len(sent') : sent'[k].reason \notin {"shading", "manual_shading"}
      ]_vars

\* C28 amended: the close at the end of shading also needs auto-down enabled
\* and the close not blocked by an override, the open needs auto-up enabled and
\* the open not blocked; when the close is not taken the open is tried.
C28_ShadingEndWhenEnabled ==
    [][\A cv \in Covers :
          LET c == AtStart(cv)
              close_ok == /\ _auto_enabled(c, hass, "auto_down_enabled")
                          /\ _sun_allows_close(c, hass, hass.sun_elevation)
                          /\ _brightness_allows_close(c, hass, Brightness(c))
                          /\ ~_manual_blocks_action(c, "close")
              open_ok == /\ _auto_enabled(c, hass, "auto_up_enabled")
                         /\ _sun_allows_open(c, hass, hass.sun_elevation)
                         /\ _brightness_allows_open(c, hass, Brightness(c))
                         /\ ~_manual_blocks_action(c, "open")
          IN  (/\ last'.op = "evaluate" /\ last'.cover = cv
               /\ ~ScopeAll(c)
               /\ ~_is_resident_sleeping(c, hass)
               /\ ~(_auto_enabled(c, hass, "auto_ventilate_enabled") /\ _is_window_open(c, hass))
               /\ ~(/\ _auto_enabled(c, hass, "auto_cold_protection_enabled")
                    /\ _cold_protection_needed(c, hass, hass.sun_elevation))
               /\ _auto_enabled(c, hass, "auto_shading_enabled")
               /\ ~_manual_blocks_action(c, "shading")
               /\ c.reason \in {"shading", "manual_shading"}
               /\ ~_shading_conditions(c, hass, hass.sun_azimuth, hass.sun_elevation,
                                       Brightness(c)))
              => /\ close_ok
                    => sent' = <<Call(_position_value(c, "close_position"),
                                      "shading_end_close")>>
                 /\ ~close_ok /\ open_ok
                    => sent' = <<Call(_position_value(c, "open_position"),
                                      "shading_end_open")>>
                 /\ \A k \in 1..Len(sent') : sent'[k].reason \notin {"shading", "manual_shading"}
      ]_vars

\* an evaluation has ended the shading with a close
C28_Witness ==
    /\ last.op = "evaluate" /\ last.cover = COVER_A
    /\ sent = <<Call(_position_value(controllers[COVER_A], "close_position"),
                     "shading_end_close")>>
    /\ hass.sun_elevation # None /\ hass.brightness # None

-----------------------------------------------------------------------------
(* The preconditions of manual detection, under SpecManual *)

\* C29 as stated: a state-change event activates an override only if it is the
\* cover's own event, the measured position and the last commanded target are
\* both known and differ by more than the tolerance, no override is active
\* (once the expiry the handler starts with has run) and at least one block
\* flag is set; an event of another entity, an event while an override is
\* active, and an event reporting no position leave the override as it is.
C29_ManualDetectionPreconditions ==
    [][\A cv \in Covers :
          LET c == AtStart(cv)
              c2 == controllers'[cv]
              current == hass'.position[cv]
              window == <<c2.manual_until, c2.manual_active, c2.manual_scope_all>>
          IN  last'.op \in {"cover_event", "state_event"}
              => /\ (c2.manual_active /\ ~c.manual_active)
                    => /\ last'.op = "cover_event" /\ last'.cover = cv
                       /\ current # None /\ c.target # None
                       /\ Abs(current - c.target) > _position_value(c, "position_tolerance")
                       /\ \E flag \in {"manual_override_block_open",
                                       "manual_override_block_close",
                                       "manual_override_block_ventilate",
                                       "manual_override_block_shading"} : c.config[flag]
                 /\ c.manual_active
                    => window = <<c.manual_until, c.manual_active, c.manual_scope_all>>
                 /\ (last'.op = "state_event" \/ last'.cover # cv)
                    => window = <<c.manual_until, c.manual_active, c.manual_scope_all>>
                 /\ _handle_state_event(controllers[cv],
                                        [hass EXCEPT !.position[cv] = None], now, cv) = c
      ]_vars

\* the cover's own event has just activated an override by detection
C29_Witness ==
    /\ last.op = "cover_event" /\ last.cover = COVER_A
    /\ controllers[COVER_A].manual_active
    /\ controllers[COVER_A].reason = "manual_override"
    /\ controllers[COVER_A].target # None
    /\ hass.position[COVER_A] # None
    /\ Abs(hass.position[COVER_A] - controllers[COVER_A].target)
          > _position_value(controllers[COVER_A], "position_tolerance")
    /\ ~controllers[COVER_A].manual_scope_all

-----------------------------------------------------------------------------
(* Two engines under one coordinator, under SpecEngines *)

\* C30: a coordinator call addressed to one cover (set_manual_override,
\* activate_shading, clear_manual_override, recalibrate_cover), every step of
\* that cover's recalibration, its timer callback, its queued command and an
\* evaluation of its engine leave manual_until, manual_active,
\* manual_scope_all, target and reason of every other cover's engine unchanged.
C30_EnginesIndependent ==
    [][\A cv \in Covers :
          (last'.cover \in DOMAIN controllers /\ last'.cover # cv)
          => /\ controllers'[cv].manual_until = controllers[cv].manual_until
             /\ controllers'[cv].manual_active = controllers[cv].manual_active
             /\ controllers'[cv].manual_scope_all = controllers[cv].manual_scope_all
             /\ controllers'[cv].target = controllers[cv].target
             /\ controllers'[cv].reason = controllers[cv].reason
      ]_vars

\* an override has just been set on one cover while the other cover, at rest
\* with a command of its own evaluation recorded, has none
C30_Witness ==
    /\ last.op = "set_manual_override" /\ last.cover = COVER_A
    /\ controllers[COVER_A].manual_active
    /\ ~controllers[OTHER_COVER].manual_active
    /\ controllers[OTHER_COVER].target # None
    /\ controllers[OTHER_COVER].reason # controllers[COVER_A].reason

-----------------------------------------------------------------------------
(* The reason labels, under SpecShading *)

\* C31: in every reachable state the stored reason is none or one of the
\* twelve labels, every command just issued carries one of the labels, and the
\* reason that state_snapshot returns and _publish_state broadcasts is one of
\* the labels or idle.
C31_ReasonVocabulary ==
    LET labels == {"resident_asleep", "ventilation", "cold_protection", "shading",
                   "shading_end_close", "shading_end_open", "sun_close",
                   "scheduled_open", "scheduled_close", "wind_protection",
                   "manual_override", "manual_shading"}
    IN  /\ \A cv \in Covers :
              /\ controllers[cv].reason \in labels \cup {NoReason}
              /\ _state_tuple(controllers[cv], hass)[2] \in labels \cup {IDLE_REASON}
              /\ state_snapshot(Frame(controllers[cv]), hass, now).returned[2]
                    \in labels \cup {IDLE_REASON}
        /\ \A k \in 1..Len(sent) : sent[k].reason \in labels

\* an override has been cleared after a command: the stored reason is none
\* again and idle is what is handed out
C31_Witness ==
    /\ last.op = "clear_manual_override" /\ last.cover = COVER_A
    /\ controllers[COVER_A].target # None
    /\ controllers[COVER_A].reason = NoReason
    /\ _state_tuple(controllers[COVER_A], hass)[2] = IDLE_REASON

-----------------------------------------------------------------------------
(* The engine's own movement, under SpecManual *)

\* C32 as stated: when an evaluation has just issued a position command and the
\* cover's next state event reports a position strictly between the one it
\* started from and the commanded target (the cover is still travelling), the
\* event does not activate a manual override.
C32_OwnMovementNotManual ==
    [][\A cv \in Covers :
          LET start == hass.position[cv]
              current == hass'.position[cv]
              target == controllers[cv].target
          IN  (/\ last.op = "evaluate" /\ last.cover = cv /\ sent # <<>>
               /\ last'.op = "cover_event" /\ last'.cover = cv
               /\ start # None /\ current # None /\ target # None
               /\ \/ start < current /\ current < target
                  \/ target < current /\ current < start)
              => ~(controllers'[cv].manual_active /\ ~controllers[cv].manual_active)
      ]_vars

-----------------------------------------------------------------------------
(* Observers and the schedule, under SpecSchedule *)

\* C33 as stated: a publish_state call (a schedule refresh made for an
\* observer) between the scheduled time and the next evaluation does not take
\* the due event away: if the evaluation would have issued the scheduled close
\* or the scheduled open before the call, it still issues it after the call.
C33_ObserversKeepDueEvents ==
    [][\A cv \in Covers :
          (last'.op = "publish_state" /\ last'.cover = cv)
          => LET before == _evaluate(Frame(controllers[cv]), hass, now).sent
                 after == _evaluate(Frame(controllers'[cv]), hass', now').sent
             IN  \A reason \in {"scheduled_close", "scheduled_open"} :
                    (\E k \in 1..Len(before) : before[k].reason = reason)
                    => (\E k \in 1..Len(after) : after[k].reason = reason)
      ]_vars

-----------------------------------------------------------------------------
(* Override changes during a recalibration, under SpecRecal *)

\* C34 as stated: when set_manual_override, clear_manual_override or
\* update_config has just been applied to an engine whose recalibrate is
\* suspended in a wait, and recalibrate then finishes, the override state that the
\* operation produced (manual_until, manual_active, manual_scope_all) is still
\* in effect.
C34_OverrideChangesSurviveRecalibration ==
    [][\A cv \in Covers :
          (/\ last.op \in {"set_manual_override", "clear_manual_override", "update_config"}
           /\ last.cover \in {cv, ""}
           /\ recal[cv].pc \in {"wait_open", "wait_back"}
           /\ recal'[cv].pc = "idle"
           /\ last'.op = "recalibrate_done")
          => /\ controllers'[cv].manual_until = controllers[cv].manual_until
             /\ controllers'[cv].manual_active = controllers[cv].manual_active
             /\ controllers'[cv].manual_scope_all = controllers[cv].manual_scope_all
      ]_vars

-----------------------------------------------------------------------------
(* The block-close flag, under SpecManual *)

\* C35 as stated: while an override is active that is not scope-all and the
\* block-close flag is set, no evaluation issues a command to the close
\* position, whichever rule would produce it.
C35_BlockCloseHonoured ==
    [][\A cv \in Covers :
          LET c == AtStart(cv)
          IN  (/\ last'.op = "evaluate" /\ last'.cover = cv
               /\ c.manual_active /\ ~c.manual_scope_all
               /\ c.config.manual_override_block_close)
              => \A k \in 1..Len(sent') :
                    sent'[k].position # _position_value(c, "close_position")
      ]_vars

-----------------------------------------------------------------------------
(* The reason and the override state, under SpecManager *)

\* C36 as stated: in every reachable state outside a running recalibrate,
\* reason = manual_override implies manual_active, and reason = manual_shading
\* implies an active override window (manual_active with manual_until set).
C36_ReasonAgreesWithOverride ==
    \A cv \in Covers :
        recal[cv].pc = "idle"
        => /\ controllers[cv].reason = "manual_override"
              => controllers[cv].manual_active
           /\ controllers[cv].reason = "manual_shading"
              => /\ controllers[cv].manual_active
                 /\ controllers[cv].manual_until # None

----------------------------------------------------------------------------
\* the two flags of every engine agree, and the three ways of ending an
\* override (expiry, clear_manual_override, update_config) leave both false
OverrideFlagsAgree ==
    \A cv \in Covers :
        LET c == controllers[cv]
        IN  /\ c.manual_scope_all => c.manual_active
            /\ ~c.manual_active => ~c.manual_scope_all
            /\ \A ended \in {clear_manual_override(Frame(c), hass, now),
                             update_config(Frame(c), hass, now, c.config)} :
                   ~ended.manual_active /\ ~ended.manual_scope_all
            /\ c.manual_until # None =>
                   LET expired == _expire_manual_override(c, c.manual_until)
                   IN  ~expired.manual_active /\ ~expired.manual_scope_all

\* a step that takes the scope-all flag from an override that stays active
ScopeAllDropped(cv) ==
    /\ controllers[cv].manual_active /\ controllers[cv].manual_scope_all
    /\ controllers'[cv].manual_active /\ ~controllers'[cv].manual_scope_all
    /\ ~Expired(controllers[cv], now)

\* C37 (as stated): manual_scope_all implies manual_active in every state, an
\* inactive override is never scope-all, and an override that became scope-all
\* stays scope-all until it is cleared or expires.
C37_ScopeInvariant ==
    /\ []OverrideFlagsAgree
    /\ [][\A cv \in Covers : ~ScopeAllDropped(cv)]_vars

\* C37 (amended): the same, except that the end of recalibrate puts back the
\* override it found, which may be a scoped one under the scope-all override
\* that recalibrate forced.
C37_ScopeInvariantOutsideRecalibrate ==
    /\ []OverrideFlagsAgree
    /\ [][\A cv \in Covers :
              ScopeAllDropped(cv)
                  => /\ recal[cv].pc # "idle" /\ recal'[cv].pc = "idle"
                     /\ recal[cv].manual_state[2] /\ ~recal[cv].manual_state[3]]_vars

\* recalibrate has just ended over a scoped override and put it back
C37_Witness ==
    \E cv \in Covers :
        /\ last.op = "recalibrate_done" /\ last.cover = cv
        /\ controllers[cv].manual_active /\ ~controllers[cv].manual_scope_all

-----------------------------------------------------------------------------
(* SpecCovers: the coordinator of an entry whose cover list changes.  The    *)
(* merged configuration carries the entry's cover list (CONF_COVERS); the    *)
(* options updates replace it with a list that keeps, adds to or empties the *)
(* covers, and the manager's calls address both cover identifiers.           *)
NextCovers ==
    LET D == [ManagerDomain EXCEPT
                 !.configs = {[covers |-> listed] @@ DefaultConfig :
                                 listed \in {{COVER_A}, {COVER_A, OTHER_COVER},
                                             {OTHER_COVER}, {}}}]
    IN  \/ AdvanceTime
        \/ Manager_set_manual_override(D)
        \/ Manager_state_snapshot(D)
        \/ UpdateOptions(D)
        \/ Unload
        \/ \E cv \in Covers : Evaluate(cv)

SpecCovers ==
    /\ InitWith({COVER_A}, {[covers |-> {COVER_A}] @@ DefaultConfig}, {1})
    /\ [][NextCovers]_vars

\* C38: after setup and any options updates the covers with a registered
\* controller are the covers of the current merged configuration, and after
\* the unload no cover has a controller.
C38_EnginesFollowConfiguredCovers ==
    /\ \A cv \in manager.controllers :
           manager.controllers = controllers[cv].config.covers
    /\ last.op = "update_config" => manager.controllers = last.config.covers
    /\ last.op = "async_unload" => manager.controllers = {}

-----------------------------------------------------------------------------
(* SpecSubscriptions: options updates that add or drop the resident and the  *)
(* brightness sensor, with the state changes of the sensors, the clock and   *)
(* the evaluations.  The entry starts with or without the two sensors.       *)
SubscriptionConfigs ==
    {DefaultConfig,
     [DefaultConfig EXCEPT !.resident_sensor = FALSE, !.brightness_sensor = FALSE]}

NextSubscriptions ==
    LET D == [ManagerDomain EXCEPT !.configs = SubscriptionConfigs,
                                   !.window = BOOLEAN,
                                   !.brightness = {None, 3}]
    IN  \/ AdvanceTime
        \/ SensorEvent(D)
        \/ UpdateOptions(D)
        \/ \E cv \in Covers : Evaluate(cv)

SpecSubscriptions ==
    /\ InitWith({COVER_A}, SubscriptionConfigs, {1})
    /\ [][NextSubscriptions]_vars

\* C39: a state change of a sensor creates an evaluation of a controller
\* exactly if the controller's current configuration references the sensor,
\* also after update_config has replaced the configuration.
C39_SubscriptionsFollowConfiguration ==
    [][\A cv \in manager.controllers :
          \A f \in {"resident", "window", "workday", "brightness"} :
              (last'.op = "state_event" /\ hass'[f] # hass[f])
                  => (tasks'[cv].eval = tasks[cv].eval + 1
                          <=> f \in _subscriptions(cv, controllers[cv].config))]_vars

====
